---------------------------- MODULE Spec2Model ----------------------------
(***************************************************************************)
(* SkyBox: the Saved Messages explorer (src/src/pages/ExplorerPage.tsx)    *)
(* over the virtual filesystem index.                                      *)
(*                                                                         *)
(* A path is the sequence of its "/"-separated segments:                   *)
(*   "tg://saved/a"  is  <<"tg:", "", "saved", "a">>                       *)
(*   "tg://msg/3"    is  <<"tg:", "", "msg", "3">>                         *)
(*   "/Home/a"       is  <<"", "Home", "a">>                               *)
(* so that startsWith, lastIndexOf("/") and slice act on segments.         *)
(***************************************************************************)
EXTENDS Integers, Sequences, FiniteSets, TLC

(***************************************************************************)
(* Bounds of the model.                                                    *)
(***************************************************************************)
\* invoke() calls a run may issue in total
MaxCalls == 2
\* invoke() calls that may be in flight at the same time
MaxInFlight == 2
\* rows of the large directories whose listings are paged
RootRows == 120
FolderRows == 60
\* changes to the rows of the paged directories, list requests in flight,
\* ranges in one listing
MaxVer == 1
MaxRequests == 2
MaxChunks == 2
\* messages with thumbnails, listings put on screen or view switches in a
\* run, thumbnail fetches in flight
MaxThumbIds == 2
MaxMounts == 3
MaxFetches == 2
\* messages that arrive after the history, rows a batch may upsert before
\* it fails, permanent deletes in a run
MaxNew == 1
MaxPartial == 2
MaxDeletes == 1
MaxDepth == 3

\* Entries navigateToPath may put on the back stack
MaxHistory == 2

\* generateQrCode calls followed
MaxGens == 3

(***************************************************************************)
(* Path helpers, ExplorerPage.tsx:184-262                                  *)
(***************************************************************************)
IsPrefix(p, q) == Len(p) <= Len(q) /\ SubSeq(q, 1, Len(p)) = p

\* q.startsWith(`${p}/`)
StartsWithSlash(q, p) == Len(q) > Len(p) /\ SubSeq(q, 1, Len(p)) = p

EmptyPath == <<>>
SavedRoot == <<"tg:", "", "saved">>
MsgRoot == <<"tg:", "", "msg">>
RECYCLE_BIN_VIRTUAL_PATH == <<"tg:", "", "saved", "Recycle Bin">>
HomePath == <<"", "Home">>
RecycleBinSavedPath == <<"", "Home", "Recycle Bin">>

isVirtualPath(path) == StartsWithSlash(path, <<"tg:", "">>)

isSavedVirtualFolderPath(path) ==
    path = SavedRoot \/ StartsWithSlash(path, SavedRoot)

isSavedVirtualFilePath(path) == StartsWithSlash(path, MsgRoot)

isSavedVirtualItemPath(path) ==
    isSavedVirtualFolderPath(path) \/ isSavedVirtualFilePath(path)

isRecycleBinPath(path) ==
    path = RECYCLE_BIN_VIRTUAL_PATH \/ StartsWithSlash(path, RECYCLE_BIN_VIRTUAL_PATH)

\* path.startsWith("tg://saved"): no slash after the prefix is asked for
startsWithTgSaved(path) ==
    Len(path) >= 3 /\ SubSeq(path, 1, 2) = <<"tg:", "">>
        /\ path[3] \in {"saved", "savedX"}

\* A name that holds a backslash, and the segments on either side of it
BackslashName == "a\\x"
SplitAtBackslash == <<"a", "x">>

RECURSIVE SplitSegments(_)
SplitSegments(path) ==
    IF path = <<>> THEN <<>>
    ELSE (IF Head(path) = BackslashName THEN SplitAtBackslash ELSE <<Head(path)>>)
            \o SplitSegments(Tail(path))

\* path.replace(/\\/g, "/"): every backslash becomes a separator
normalizePath(path) ==
    IF \A i \in 1..Len(path) : path[i] # BackslashName THEN path
    ELSE SplitSegments(path)

RECURSIVE StripTrailing(_)
\* .replace(/\/+$/, ""): trailing empty segments go
StripTrailing(p) ==
    IF Len(p) > 1 /\ p[Len(p)] = "" THEN StripTrailing(SubSeq(p, 1, Len(p) - 1))
    ELSE p

getParentPath(path) ==
    LET n == StripTrailing(normalizePath(path))
    IN  IF Len(n) <= 1 \/ (Len(n) = 2 /\ n[1] = "") THEN EmptyPath
        ELSE SubSeq(n, 1, Len(n) - 1)

getPathName(path) ==
    LET n == StripTrailing(normalizePath(path))
        parts == SelectSeq(n, LAMBDA s : s # "")
    IN  IF Len(parts) > 0 THEN parts[Len(parts)] ELSE ""

joinPath(base, name) ==
    LET b == StripTrailing(normalizePath(base))
    IN  IF b = EmptyPath \/ b = <<"">> THEN <<name>> ELSE Append(b, name)

\* path.replace(/^tg:\/\/saved\/?/, ""): the prefix goes, with the slash
\* after it if there is one; what follows "saved" in its segment stays
withoutTgSaved(path) ==
    IF IsPrefix(SavedRoot, path) THEN SubSeq(path, 4, Len(path))
    ELSE IF startsWithTgSaved(path)
         THEN <<"X">> \o SubSeq(path, 4, Len(path))
         ELSE path

virtualToSavedPath(virtualPath) ==
    IF virtualPath = SavedRoot THEN HomePath
    ELSE LET rel == withoutTgSaved(virtualPath)
             trimmed == IF rel = <<>> THEN rel ELSE StripTrailing(rel)
         IN  IF trimmed = <<>> \/ trimmed = <<"">> THEN HomePath
             ELSE HomePath \o trimmed

\* the same with normalized.slice(5): the slash after /Home is kept
savedToVirtualPathSlice5(savedPath) ==
    LET n == StripTrailing(normalizePath(savedPath))
    IN  IF n = HomePath THEN SavedRoot
        ELSE IF StartsWithSlash(n, HomePath)
             THEN SavedRoot \o <<"">> \o SubSeq(n, 3, Len(n))
             ELSE SavedRoot

savedToVirtualPath(savedPath) ==
    LET n == StripTrailing(normalizePath(savedPath))
    IN  IF n = HomePath THEN SavedRoot
        ELSE IF StartsWithSlash(n, HomePath)
             THEN SavedRoot \o SubSeq(n, 3, Len(n))
             ELSE SavedRoot

(***************************************************************************)
(* The index (telegram_saved_items): one row per slot of ItemIds.  A file  *)
(* row is backed by the message of its slot; a folder row has message_id   *)
(* 0.  Paths in the store are canonical (/Home/...).                       *)
(***************************************************************************)
ItemIds == 1..4
IdStr == <<"1", "2", "3", "4">>
Names == {"a", "x"}
NoPath == <<"-">>
RecycleBinName == "Recycle Bin"

AbsentRow ==
    [present |-> FALSE, message_id |-> 0, file_type |-> "file",
     file_name |-> "", file_path |-> NoPath, recycle_origin_path |-> NoPath]

FolderRow(name, path) ==
    [present |-> TRUE, message_id |-> 0, file_type |-> "folder",
     file_name |-> name, file_path |-> path, recycle_origin_path |-> NoPath]

FileRow(id, name, path) ==
    [present |-> TRUE, message_id |-> id, file_type |-> "file",
     file_name |-> name, file_path |-> path, recycle_origin_path |-> NoPath]

\* The canonical path a folder row stands for
FolderPathOf(r) == joinPath(r.file_path, r.file_name)

IsFolderPath(its, path) ==
    \/ path = HomePath
    \/ path = RecycleBinSavedPath
    \/ \E i \in ItemIds : /\ its[i].present
                          /\ its[i].file_type = "folder"
                          /\ FolderPathOf(its[i]) = path

InRecycleBin(r) == r.present /\ IsPrefix(RecycleBinSavedPath, r.file_path)

\* The rows below folder row i: those whose parent path is at or under it
Descendants(its, i) ==
    IF its[i].file_type # "folder" THEN {}
    ELSE {j \in ItemIds \ {i} :
            its[j].present /\ IsPrefix(FolderPathOf(its[i]), its[j].file_path)}

\* Row i gets parent path `to` (and name `name`); its subtree follows it
Reparent(its, i, to, name, origin) ==
    LET old == FolderPathOf(its[i])
        new == joinPath(to, name)
        sub == Descendants(its, i)
    IN  [j \in ItemIds |->
            IF j = i
            THEN [its[j] EXCEPT !.file_path = to, !.file_name = name,
                                !.recycle_origin_path = origin]
            ELSE IF j \in sub
            THEN [its[j] EXCEPT !.file_path =
                     new \o SubSeq(its[j].file_path, Len(old) + 1,
                                   Len(its[j].file_path))]
            ELSE its[j]]

\* The rows a source path (tg://msg/<id> or tg://saved/...) names
Resolve(its, sourcePath) ==
    IF isSavedVirtualFilePath(sourcePath)
    THEN {i \in ItemIds : /\ its[i].present
                          /\ its[i].file_type = "file"
                          /\ Len(sourcePath) = 4
                          /\ sourcePath[4] = IdStr[its[i].message_id]}
    ELSE IF isSavedVirtualFolderPath(sourcePath)
    THEN {i \in ItemIds : /\ its[i].present
                          /\ its[i].file_type = "folder"
                          /\ FolderPathOf(its[i]) = virtualToSavedPath(sourcePath)}
    ELSE {}

Outcome(its, res) == [items |-> its, result |-> res]

SiblingFolderNamed(its, parent, name, except) ==
    \E j \in ItemIds \ except :
        /\ its[j].present
        /\ its[j].file_type = "folder"
        /\ its[j].file_path = parent
        /\ its[j].file_name = name

FreeSlots(its) == {i \in ItemIds : ~its[i].present}

\* create_folder(parent, name), stored in free slot i
create_folder(its, i, parent, name) ==
    IF SiblingFolderNamed(its, parent, name, {})
    THEN Outcome(its, "NameConflict")
    ELSE Outcome([its EXCEPT ![i] = FolderRow(name, parent)], "ok")

\* rename(source, new_name): file_name only (a folder's subtree follows)
rename(its, i, newName) ==
    IF SiblingFolderNamed(its, its[i].file_path, newName, {i})
    THEN Outcome(its, "NameConflict")
    ELSE Outcome(Reparent(its, i, its[i].file_path, newName,
                          its[i].recycle_origin_path), "ok")

MoveInvalidTarget(its, i, dest) ==
    \/ ~IsFolderPath(its, dest)
    \/ dest = its[i].file_path
    \/ /\ its[i].file_type = "folder"
       /\ IsPrefix(FolderPathOf(its[i]), dest)

\* move without its guard: every destination is accepted
moveUnguarded(its, i, dest) ==
    Outcome(Reparent(its, i, dest, its[i].file_name,
                     its[i].recycle_origin_path), "ok")

\* move(source, destination_folder)
move(its, i, dest) ==
    IF MoveInvalidTarget(its, i, dest)
    THEN Outcome(its, "InvalidTarget")
    ELSE Outcome(Reparent(its, i, dest, its[i].file_name,
                          its[i].recycle_origin_path), "ok")

\* move_to_recycle_bin(source)
move_to_recycle_bin(its, i) ==
    IF InRecycleBin(its[i])
    THEN Outcome(its, "ok")
    ELSE Outcome(Reparent(its, i, RecycleBinSavedPath, its[i].file_name,
                          its[i].file_path), "ok")

\* restore that puts the item at the root instead of where it came from
restoreToRoot(its, i) ==
    IF its[i].recycle_origin_path = NoPath
    THEN Outcome(its, "NotFound")
    ELSE Outcome(Reparent(its, i, HomePath, its[i].file_name, NoPath), "ok")

\* restore(source)
restore(its, i) ==
    IF its[i].recycle_origin_path = NoPath
    THEN Outcome(its, "NotFound")
    ELSE IF ~IsFolderPath(its, its[i].recycle_origin_path)
    THEN Outcome(its, "RestoreTargetMissing")
    ELSE Outcome(Reparent(its, i, its[i].recycle_origin_path,
                          its[i].file_name, NoPath), "ok")

\* delete_permanently(source); remoteOk is what send_delete reported
delete_permanently(its, i, remoteOk) ==
    IF ~InRecycleBin(its[i])
    THEN Outcome(its, "InvalidTarget")
    ELSE IF ~remoteOk
    THEN Outcome(its, "RemoteDeleteFailed")
    ELSE Outcome([j \in ItemIds |->
                    IF j = i \/ j \in Descendants(its, i)
                    THEN AbsentRow ELSE its[j]], "ok")

\* An uploaded or newly indexed message: upsert keyed by message_id (slot i)
upsert_saved_item(its, i, name, path) ==
    Outcome([its EXCEPT ![i] = FileRow(i, name, path)], "ok")

(***************************************************************************)
(* The explorer page.  FileItem is what a row of the listing carries       *)
(* (components/skybox/FileRow.tsx); a real directory has a fixed listing.  *)
(***************************************************************************)
VARIABLES
    items,          \* the index: [ItemIds -> row]
    currentPath,    \* useState currentPath
    files,          \* useState files: the listing on screen
    selectedFile,   \* useState selectedFile
    deleteTarget,   \* useState deleteTarget (the confirm dialog is open)
    clipboardItem,  \* useState clipboardItem
    draggedPath,    \* the path a drag in progress carries
    calls,          \* invoke() calls in flight, with their handler's closure
    nCalls,         \* invoke() calls issued so far
    lastOp,         \* the request handled last and how it ended
    filesRef,       \* filesRef.current: the listing as ranges of rows
    savedItemsOffset,           \* useState savedItemsOffset
    hasMoreSavedItems,          \* useState hasMoreSavedItems
    isLoading,                  \* useState isLoading
    isLoadingMoreSavedItems,    \* useState isLoadingMoreSavedItems
    isSavedBackfillSyncing,     \* useState isSavedBackfillSyncing
    isSavedSyncComplete,        \* useState isSavedSyncComplete
    savedPathCache, \* savedPathCacheRef.current
    requests,       \* list requests in flight
    pathVer,        \* how often the rows under each path have changed
    lastLoad,       \* the latest loadDirectory call: its path and how far it got
    viewMode,       \* useState viewMode: "list" (FileRow) or "grid" (FileGridItem)
    rows,           \* the row component of each message: mounted, thumbUrl, ...
    nMounts,        \* listings shown and view switches so far
    prefetchedThumbnailIds,     \* prefetchedThumbnailIdsRef.current
    thumbFetches,   \* thumbnail invoke() calls in flight
    retries,        \* tg_get_message_thumbnail calls issued per message
    retryFailed,    \* messages whose re-fetch has failed
    remote,         \* the remote stream: its message ids, newest first
    rawCache,       \* the cached raw-message records (telegram_messages)
    savedRows,      \* SavedItem rows per message_id (telegram_saved_items)
    recycledIds,    \* messages whose row is in the Recycle Bin
    checkpoint,     \* SyncCheckpoint
    okBackfills,    \* backfill_batch calls that answered ok
    deletedIds,     \* messages deleted permanently
    breadcrumbItems,    \* useMemo breadcrumbItems, as rendered last
    backHistory,    \* useState backHistory
    forwardHistory, \* useState forwardHistory
    timeline,       \* the visited paths in order, as they stood when a back or
                    \* forward step was last taken with no load in flight
    attempt,        \* the page as it stood when the latest navigation began
    route,          \* the route on screen: "/", "/login" or "/explorer"
    step,           \* LoginPage useState step
    loginMode,      \* LoginPage useState loginMode
    pollingRef,     \* pollingRef.current
    isMigratingRef, \* isMigratingRef.current
    qrStartedRef,   \* qrStartedRef.current
    loops,          \* each startQrPolling call's poll chain: where it stands
    nLoops,         \* startQrPolling calls so far
    gens,           \* tg_generate_qr_code calls in flight
    nGens,          \* generateQrCode calls so far
    regenTimers,    \* pending setTimeout(generateQrCode, 5000) timers
    qrEvent,        \* what the QR flow did last
    phase,          \* LoadingPage: what checkLoginStatus is waiting for
    elapsed,        \* seconds the current wait has lasted
    online,         \* navigator.onLine
    restoreResult,  \* what tg_restore_session answered, if it did
    navigated       \* the navigate() calls of LoadingPage, in order

\* The listing is modelled twice.  The mutation flows see it by content
\* (items, files: which rows, a handful of them, loaded in one step); paging
\* and the cache see it by extent (filesRef ... pathVer: ranges of the rows of
\* large directories, loaded by requests that take time).  The actions of
\* one view leave the variables of the other alone.
pageVars == <<items, files, selectedFile, deleteTarget, clipboardItem,
              draggedPath, calls, nCalls>>

listVars == <<filesRef, savedItemsOffset, hasMoreSavedItems, isLoading,
              isLoadingMoreSavedItems, isSavedBackfillSyncing,
              isSavedSyncComplete, savedPathCache, requests, pathVer,
              lastLoad>>

\* The thumbnails of the rows on screen
thumbVars == <<viewMode, rows, nMounts, prefetchedThumbnailIds, thumbFetches,
               retries, retryFailed>>

\* The indexer and the remote stream
syncVars == <<remote, rawCache, savedRows, recycledIds, checkpoint,
              okBackfills, deletedIds>>

\* What the page renders from the current path
resolveVars == <<breadcrumbItems>>

\* The navigation history of the page
navVars == <<backHistory, forwardHistory, timeline, attempt>>

\* The login page and its QR flow
loginVars == <<step, loginMode, pollingRef, isMigratingRef, qrStartedRef,
               loops, nLoops, gens, nGens, regenTimers, qrEvent>>

\* The loading page and its session check
loadingVars == <<phase, elapsed, online, restoreResult, navigated>>

\* The pages before the explorer, and the route on screen
pagesVars == <<route, loginVars, loadingVars>>

vars == <<items, currentPath, files, selectedFile, deleteTarget,
          clipboardItem, draggedPath, calls, nCalls, lastOp, filesRef,
          savedItemsOffset, hasMoreSavedItems, isLoading,
          isLoadingMoreSavedItems, isSavedBackfillSyncing,
          isSavedSyncComplete, savedPathCache, requests, pathVer,
          lastLoad, viewMode, rows, nMounts, prefetchedThumbnailIds,
          thumbFetches, retries, retryFailed, remote, rawCache, savedRows,
          recycledIds, checkpoint, okBackfills, deletedIds,
          breadcrumbItems, backHistory, forwardHistory, timeline, attempt,
          route, step, loginMode, pollingRef, isMigratingRef, qrStartedRef,
          loops, nLoops, gens, nGens, regenTimers, qrEvent, phase, elapsed,
          online,
          restoreResult, navigated>>

\* No back or forward step taken yet; no navigation begun yet
NoTimeline == <<>>

NoAttempt == [settled |-> FALSE]

\* A step of the QR flow: what was done, by which poll loop, on which answer
QrEvent(kind, loop, result) == [kind |-> kind, loop |-> loop, result |-> result]

FileItem(path, name, isDirectory) ==
    [path |-> path, name |-> name, isDirectory |-> isDirectory]

NoFile == FileItem(EmptyPath, "", FALSE)
NoClip == [path |-> EmptyPath, name |-> "", isDirectory |-> FALSE, mode |-> "none"]

RealDir == <<"", "home">>
RealFolder == FileItem(<<"", "home", "d">>, "d", TRUE)
RecycleBinItem == FileItem(RECYCLE_BIN_VIRTUAL_PATH, RecycleBinName, TRUE)

savedItemToFileItem(item) ==
    IF item.file_type = "folder"
    THEN FileItem(savedToVirtualPath(joinPath(item.file_path, item.file_name)),
                  item.file_name, TRUE)
    ELSE FileItem(Append(MsgRoot, IdStr[item.message_id]), item.file_name, FALSE)

\* tg_list_saved_items(file_path): the rows whose parent path is file_path;
\* the Recycle Bin is itself a folder of /Home
tg_list_saved_items(its, savedPath) ==
    {savedItemToFileItem(its[i]) :
        i \in {j \in ItemIds : its[j].present /\ its[j].file_path = savedPath}}
    \cup (IF savedPath = HomePath THEN {RecycleBinItem} ELSE {})

\* loadDirectory(path, {force: true}): what the listing becomes
loadDirectory(its, path) ==
    IF startsWithTgSaved(path)
    THEN tg_list_saved_items(its, virtualToSavedPath(path))
    ELSE IF path = RealDir THEN {RealFolder} ELSE {}

filteredFiles ==
    {f \in files :
        ~(currentPath = SavedRoot /\ f.isDirectory
            /\ f.path = RECYCLE_BIN_VIRTUAL_PATH)}

\* An invoke() in flight: the command and its arguments, the handler that
\* awaits it (via) and the state that handler's closure holds
\* (path: currentPath; selHit: selectedFile?.path === the path it compares
\* to, sel being the selection the handler's render saw)
Call(via, cmd, src, dst, name, target, sel, selPath) ==
    [via |-> via, cmd |-> cmd, src |-> src, dst |-> dst, name |-> name,
     target |-> target, path |-> currentPath,
     selHit |-> (sel # NoFile /\ sel.path = selPath)]

\* What the step just taken did with a request (the toast it raised);
\* row is the slot of the index a served command acted on, 0 if none
Op(op, src, dst, res) ==
    [op |-> op, src |-> src, dst |-> dst, row |-> 0, res |-> res]
NoOp == Op("none", EmptyPath, EmptyPath, "none")

CanInvoke == nCalls < MaxCalls /\ Len(calls) < MaxInFlight

Invoke(c) ==
    /\ CanInvoke
    /\ calls' = Append(calls, c)
    /\ nCalls' = nCalls + 1

InitItems ==
    [i \in ItemIds |->
        CASE i = 1 -> FolderRow("a", HomePath)
          [] i = 2 -> FolderRow("x", <<"", "Home", "a">>)
          [] i = 3 -> FileRow(3, "x", HomePath)
          [] OTHER -> AbsentRow]

\* The saved paths whose listings are paged and cached
SavedFolder == <<"tg:", "", "saved", "a">>
ListPaths == {SavedRoot, SavedFolder}

\* SavedPathCacheEntry; NoEntry stands for a path the cache does not hold
NoEntry ==
    [items |-> <<>>, nextOffset |-> -1, hasMore |-> FALSE,
     isCompleteSnapshot |-> FALSE]

\* A loadDirectory call: "pending" while it awaits its list request,
\* "shown" once it has put a listing on screen, "failed" after its catch
Load(path, state) == [path |-> path, state |-> state]

EmptyCache == [p \in ListPaths |-> NoEntry]

\* Messages whose rows can show a thumbnail
ThumbIds == 1..MaxThumbIds

\* file.thumbnail of the listing: the odd messages have a cached thumbnail
\* path in the index, the even ones have none
HasListingThumbnail(id) == id % 2 = 1

\* A row component (FileRow or FileGridItem) of message id as it mounts:
\* useState(resolveThumbnailSrc(file.thumbnail)), useState(false)
MountedRow(id, inst) ==
    [mounted |-> TRUE, inst |-> inst,
     thumbUrl |-> IF HasListingThumbnail(id) THEN "listing" ELSE "none",
     img |-> IF HasListingThumbnail(id) THEN "pending" ELSE "none",
     hasRetriedBrokenThumbnail |-> FALSE]

NoRow ==
    [mounted |-> FALSE, inst |-> 0, thumbUrl |-> "none", img |-> "none",
     hasRetriedBrokenThumbnail |-> FALSE]

\* No listing with thumbnails has been shown
InitThumb ==
    /\ viewMode = "list"
    /\ rows = [id \in ThumbIds |-> NoRow]
    /\ nMounts = 0
    /\ prefetchedThumbnailIds = {}
    /\ thumbFetches = <<>>
    /\ retries = [id \in ThumbIds |-> 0]
    /\ retryFailed = [id \in ThumbIds |-> FALSE]

\* The scenario of spec 8: 137 historical messages, batches of 50
RemoteHistory == 137
BatchSize == 50

\* Message ids: the history and the messages that arrive later
MsgRange == 1..(RemoteHistory + MaxNew)

\* SyncCheckpoint before any backfill: no oldest_indexed_message_id
NoCheckpoint == [oldest_indexed_message_id |-> 0, is_complete |-> FALSE]

\* Nothing is indexed yet
InitSync ==
    /\ remote = [j \in 1..RemoteHistory |-> RemoteHistory + 1 - j]
    /\ rawCache = {}
    /\ savedRows = [id \in MsgRange |-> 0]
    /\ recycledIds = {}
    /\ checkpoint = NoCheckpoint
    /\ okBackfills = 0
    /\ deletedIds = {}

\* No handler has run and nothing is in flight, whatever the path is
InitOn(path, r) ==
    /\ InitSync
    /\ InitThumb
    /\ items = InitItems
    /\ currentPath = path
    /\ breadcrumbItems = <<>>
    /\ backHistory = <<>>
    /\ forwardHistory = <<>>
    /\ timeline = NoTimeline
    /\ attempt = NoAttempt
    /\ route = r
    /\ step = "phone"
    /\ loginMode = "qr"
    /\ pollingRef = FALSE
    /\ isMigratingRef = FALSE
    /\ qrStartedRef = FALSE
    /\ loops = [l \in 1..MaxGens |-> "none"]
    /\ nLoops = 0
    /\ gens = 0
    /\ nGens = 0
    /\ regenTimers = 0
    /\ qrEvent = QrEvent("none", 0, "")
    /\ phase = IF r = "/" THEN "timer" ELSE "done"
    /\ elapsed = 0
    /\ online \in BOOLEAN
    /\ restoreResult = "none"
    /\ navigated = IF r = "/" THEN <<>> ELSE <<r>>
    /\ selectedFile = NoFile
    /\ deleteTarget = NoFile
    /\ clipboardItem = NoClip
    /\ draggedPath = EmptyPath
    /\ calls = <<>>
    /\ nCalls = 0
    /\ lastOp = NoOp
    /\ filesRef = <<>>
    /\ savedItemsOffset = 0
    /\ hasMoreSavedItems = FALSE
    /\ isLoadingMoreSavedItems = FALSE
    /\ isSavedSyncComplete = FALSE
    /\ savedPathCache = EmptyCache
    /\ pathVer = [p \in ListPaths |-> 0]

\* The explorer page at path
InitAt(path) == InitOn(path, "/explorer") /\ online

InitHandlers == InitAt(SavedRoot)

\* The page once its first listing is on screen
Init ==
    /\ InitHandlers
    /\ files = loadDirectory(InitItems, SavedRoot)
    /\ isLoading = FALSE
    /\ isSavedBackfillSyncing = FALSE
    /\ requests = <<>>
    /\ lastLoad = Load(SavedRoot, "shown")

\* handleNavigateEvent / navigateToPath / handleFileOpen of a directory
NavTargets ==
    {SavedRoot, RECYCLE_BIN_VIRTUAL_PATH, RealDir}
        \cup {f.path : f \in {g \in filteredFiles : g.isDirectory}}

\* The confirm dialog is modal (no row, menu or sidebar click below it)
\* and a drag in progress holds the pointer.
Idle == deleteTarget = NoFile /\ draggedPath = EmptyPath

Navigate(path) ==
    /\ path \in NavTargets
    /\ Idle
    /\ path # currentPath
    /\ currentPath' = path
    /\ files' = loadDirectory(items, path)
    /\ lastOp' = NoOp
    /\ UNCHANGED <<items, selectedFile, deleteTarget, clipboardItem,
                   draggedPath, calls, nCalls>>
    /\ UNCHANGED <<listVars, thumbVars, syncVars, resolveVars,
                   navVars, pagesVars>>

handleFileSelect(file) ==
    /\ file \in filteredFiles
    /\ Idle
    /\ selectedFile' = file
    /\ lastOp' = NoOp
    /\ UNCHANGED <<items, currentPath, files, deleteTarget, clipboardItem,
                   draggedPath, calls, nCalls>>
    /\ UNCHANGED <<listVars, thumbVars, syncVars, resolveVars,
                   navVars, pagesVars>>

\* handleKeyDown, the Delete key: setDeleteTarget(selectedFile)
handleKeyDownDelete ==
    /\ selectedFile # NoFile
    /\ deleteTarget # selectedFile
    /\ deleteTarget' = selectedFile
    /\ lastOp' = NoOp
    /\ UNCHANGED <<items, currentPath, files, selectedFile, clipboardItem,
                   draggedPath, calls, nCalls>>
    /\ UNCHANGED <<listVars, thumbVars, syncVars, resolveVars,
                   navVars, pagesVars>>

\* the context menu of a row, "Delete"
handleContextDelete(file) ==
    /\ file \in filteredFiles
    /\ Idle
    /\ selectedFile' = file
    /\ deleteTarget' = file
    /\ lastOp' = NoOp
    /\ UNCHANGED <<items, currentPath, files, clipboardItem, draggedPath,
                   calls, nCalls>>
    /\ UNCHANGED <<listVars, thumbVars, syncVars, resolveVars,
                   navVars, pagesVars>>

\* the confirm dialog, "Cancel"
cancelDelete ==
    /\ deleteTarget # NoFile
    /\ deleteTarget' = NoFile
    /\ lastOp' = NoOp
    /\ UNCHANGED <<items, currentPath, files, selectedFile, clipboardItem,
                   draggedPath, calls, nCalls>>
    /\ UNCHANGED <<listVars, thumbVars, syncVars, resolveVars,
                   navVars, pagesVars>>

\* handleDelete up to its await: which command the confirmation invokes
DeleteCommand(target, path) ==
    IF isSavedVirtualItemPath(target.path)
    THEN IF isRecycleBinPath(path)
         THEN "tg_delete_saved_item_permanently"
         ELSE "tg_move_saved_item_to_recycle_bin"
    ELSE "fs_delete"

handleDelete ==
    /\ deleteTarget # NoFile
    /\ Invoke(Call("handleDelete", DeleteCommand(deleteTarget, currentPath), deleteTarget.path,
                   EmptyPath, "", deleteTarget, selectedFile, deleteTarget.path))
    /\ lastOp' = NoOp
    /\ UNCHANGED <<items, currentPath, files, selectedFile, deleteTarget,
                   clipboardItem, draggedPath>>
    /\ UNCHANGED <<listVars, thumbVars, syncVars, resolveVars,
                   navVars, pagesVars>>

\* handleFileContextMenu (the right click selects the row), then
\* handleRestoreFromRecycleBin(contextTargetFile) up to its await
handleRestoreFromRecycleBin(file) ==
    /\ file \in filteredFiles
    /\ Idle
    /\ isRecycleBinPath(currentPath)
    /\ isSavedVirtualItemPath(file.path)
    /\ Invoke(Call("handleRestoreFromRecycleBin", "tg_restore_saved_item",
                   file.path, EmptyPath, "", file, file, file.path))
    /\ selectedFile' = file
    /\ lastOp' = NoOp
    /\ UNCHANGED <<items, currentPath, files, deleteTarget,
                   clipboardItem, draggedPath>>
    /\ UNCHANGED <<listVars, thumbVars, syncVars, resolveVars,
                   navVars, pagesVars>>

\* handleFileContextMenu, then handleStageClipboardItem(mode, contextTargetFile)
handleStageClipboardItem(mode, file) ==
    /\ file \in filteredFiles
    /\ Idle
    /\ ~isRecycleBinPath(currentPath)
    /\ clipboardItem' = [path |-> file.path, name |-> file.name,
                         isDirectory |-> file.isDirectory, mode |-> mode]
    /\ selectedFile' = file
    /\ lastOp' = NoOp
    /\ UNCHANGED <<items, currentPath, files, deleteTarget,
                   draggedPath, calls, nCalls>>
    /\ UNCHANGED <<listVars, thumbVars, syncVars, resolveVars,
                   navVars, pagesVars>>

\* handlePaste sending whatever is on the clipboard, with no test of the domains
handlePasteAnyDomain(clip, dest) ==
    IF dest = EmptyPath THEN Op("none", clip.path, dest, "return")
    ELSE IF isSavedVirtualItemPath(clip.path) \/ isSavedVirtualFolderPath(dest)
    THEN Op("tg_move_saved_item", clip.path, dest, "invoke")
    ELSE Op("move_file", clip.path, joinPath(dest, clip.name), "invoke")

\* handlePaste up to its await: the command it invokes, or why it returns
handlePasteDecision(clip, dest) ==
    LET sourceIsSaved == isSavedVirtualItemPath(clip.path)
        destinationIsSaved == isSavedVirtualFolderPath(dest)
        destinationPath == joinPath(dest, clip.name)
    IN  IF dest = EmptyPath THEN Op("none", clip.path, dest, "return")
        ELSE IF isRecycleBinPath(dest)
        THEN Op("none", clip.path, dest, "Cannot paste items inside Recycle Bin")
        ELSE IF sourceIsSaved \/ destinationIsSaved
        THEN IF ~sourceIsSaved \/ ~destinationIsSaved
             THEN Op("none", clip.path, dest,
                     "Cannot move items between local files and Saved Messages")
             ELSE Op("tg_move_saved_item", clip.path, dest, "invoke")
        ELSE IF isVirtualPath(clip.path) \/ isVirtualPath(dest)
        THEN Op("none", clip.path, dest, "Unsupported source or destination path")
        ELSE IF clip.path = destinationPath
        THEN Op("none", clip.path, destinationPath, "Paste skipped")
        ELSE IF clip.mode = "copy"
        THEN IF clip.isDirectory
             THEN Op("none", clip.path, destinationPath,
                     "Copying folders is not available yet")
             ELSE Op("copy_file", clip.path, destinationPath, "invoke")
        ELSE Op("move_file", clip.path, destinationPath, "invoke")

\* resolvePasteDestinationPath: the folder the menu was opened on, or the
\* current path (the menu of the empty area, NoFile).  The menus that offer
\* Paste are not shown in the Recycle Bin.
PasteTargets == {NoFile} \cup filteredFiles

resolvePasteDestinationPath(target) ==
    IF target # NoFile /\ target.isDirectory THEN target.path ELSE currentPath

\* handleFileContextMenu or handleEmptyAreaContextMenu (either sets the
\* selection), then handlePaste up to its await
handlePaste(target) ==
    /\ clipboardItem # NoClip
    /\ Idle
    /\ ~isRecycleBinPath(currentPath)
    /\ target \in PasteTargets
    /\ LET dest == resolvePasteDestinationPath(target)
           d == handlePasteDecision(clipboardItem, dest)
       IN  IF d.res = "invoke"
           THEN /\ Invoke(Call("handlePaste", d.op, d.src, d.dst, "", target,
                               target, d.src))
                /\ lastOp' = Op("handlePaste", clipboardItem.path, dest, d.op)
           ELSE /\ lastOp' = Op("handlePaste", clipboardItem.path, dest, d.res)
                /\ UNCHANGED <<calls, nCalls>>
    /\ selectedFile' = target
    /\ UNCHANGED <<items, currentPath, files, deleteTarget,
                   clipboardItem, draggedPath>>
    /\ UNCHANGED <<listVars, thumbVars, syncVars, resolveVars,
                   navVars, pagesVars>>

isDraggableItem(file) ==
    IF isRecycleBinPath(currentPath) THEN FALSE
    ELSE IF isSavedVirtualFolderPath(file.path) THEN file.path # SavedRoot
    ELSE IF isSavedVirtualFilePath(file.path) THEN TRUE
    ELSE ~isVirtualPath(file.path)

handleItemDragStart(file) ==
    /\ file \in filteredFiles
    /\ deleteTarget = NoFile
    /\ draggedPath = EmptyPath
    /\ isDraggableItem(file)
    /\ draggedPath' = file.path
    /\ lastOp' = NoOp
    /\ UNCHANGED <<items, currentPath, files, selectedFile, deleteTarget,
                   clipboardItem, calls, nCalls>>
    /\ UNCHANGED <<listVars, thumbVars, syncVars, resolveVars,
                   navVars, pagesVars>>

handleItemDragEnd ==
    /\ draggedPath # EmptyPath
    /\ draggedPath' = EmptyPath
    /\ lastOp' = NoOp
    /\ UNCHANGED <<items, currentPath, files, selectedFile, deleteTarget,
                   clipboardItem, calls, nCalls>>
    /\ UNCHANGED <<listVars, thumbVars, syncVars, resolveVars,
                   navVars, pagesVars>>

canDropToTarget(sourcePath, target) ==
    LET hasSourceItem == \E f \in files : f.path = sourcePath
        sourceIsDirectory == \E f \in files : f.path = sourcePath /\ f.isDirectory
        sourceIsSavedVirtual == isSavedVirtualFolderPath(sourcePath)
                                    \/ isSavedVirtualFilePath(sourcePath)
        targetIsSavedVirtualFolder == isSavedVirtualFolderPath(target.path)
    IN  IF isRecycleBinPath(currentPath) THEN FALSE
        ELSE IF ~target.isDirectory THEN FALSE
        ELSE IF sourceIsSavedVirtual \/ targetIsSavedVirtualFolder
        THEN /\ sourceIsSavedVirtual /\ targetIsSavedVirtualFolder
             /\ sourcePath # target.path
             /\ isSavedVirtualFolderPath(sourcePath) =>
                    /\ getParentPath(sourcePath) # target.path
                    /\ ~StartsWithSlash(target.path, sourcePath)
             /\ ~(isSavedVirtualFilePath(sourcePath) /\ currentPath = target.path)
             /\ hasSourceItem \/ isSavedVirtualFilePath(sourcePath)
        ELSE IF isVirtualPath(sourcePath) \/ isVirtualPath(target.path) THEN FALSE
        ELSE /\ sourcePath # target.path
             /\ getParentPath(sourcePath) # target.path
             /\ ~(sourceIsDirectory /\ StartsWithSlash(target.path, sourcePath))

\* handleItemDrop up to its await
handleItemDropDecision(sourcePath, target) ==
    IF sourcePath = EmptyPath \/ ~canDropToTarget(sourcePath, target)
    THEN Op("none", sourcePath, target.path, "return")
    ELSE IF isRecycleBinPath(currentPath)
    THEN Op("none", sourcePath, target.path, "return")
    ELSE IF /\ isSavedVirtualFolderPath(sourcePath) \/ isSavedVirtualFilePath(sourcePath)
            /\ isSavedVirtualFolderPath(target.path)
    THEN Op("tg_move_saved_item", sourcePath, target.path, "invoke")
    ELSE Op("move_file", sourcePath,
            joinPath(target.path, getPathName(sourcePath)), "invoke")

handleItemDrop(target) ==
    /\ target \in filteredFiles
    /\ deleteTarget = NoFile
    /\ draggedPath # EmptyPath
    /\ LET d == handleItemDropDecision(draggedPath, target)
       IN  IF d.res = "invoke"
           THEN /\ Invoke(Call("handleItemDrop", d.op, d.src, d.dst, "", target,
                               selectedFile, d.src))
                /\ lastOp' = Op("handleItemDrop", draggedPath, target.path, d.op)
                /\ UNCHANGED draggedPath
           ELSE \* no preventDefault: the drag ends without a drop
                /\ lastOp' = Op("handleItemDrop", draggedPath, target.path, d.res)
                /\ draggedPath' = EmptyPath
                /\ UNCHANGED <<calls, nCalls>>
    /\ UNCHANGED <<items, currentPath, files, selectedFile, deleteTarget,
                   clipboardItem>>
    /\ UNCHANGED <<listVars, thumbVars, syncVars, resolveVars,
                   navVars, pagesVars>>

\* handleNewFolder and handleConfirmNewFolder up to its await
handleConfirmNewFolder(folderName) ==
    /\ folderName \in Names
    /\ Idle
    /\ ~isRecycleBinPath(currentPath)
    /\ IF startsWithTgSaved(currentPath)
       THEN Invoke(Call("handleConfirmNewFolder", "tg_create_saved_folder",
                        EmptyPath, virtualToSavedPath(currentPath), folderName,
                        NoFile, NoFile, EmptyPath))
       ELSE Invoke(Call("handleConfirmNewFolder", "fs_create_dir",
                        EmptyPath, Append(currentPath, folderName), folderName,
                        NoFile, NoFile, EmptyPath))
    /\ lastOp' = NoOp
    /\ UNCHANGED <<items, currentPath, files, selectedFile, deleteTarget,
                   clipboardItem, draggedPath>>
    /\ UNCHANGED <<listVars, thumbVars, syncVars, resolveVars,
                   navVars, pagesVars>>

\* handleFileContextMenu, handleRename(contextTargetFile) and
\* handleConfirmRename up to its await
handleConfirmRename(file, normalizedName) ==
    /\ file \in filteredFiles
    /\ normalizedName \in Names \ {file.name}
    /\ Idle
    /\ ~isRecycleBinPath(currentPath)
    /\ IF isSavedVirtualItemPath(file.path)
       THEN Invoke(Call("handleConfirmRename", "tg_rename_saved_item",
                        file.path, EmptyPath, normalizedName, file, file,
                        file.path))
       ELSE /\ getParentPath(file.path) # EmptyPath
            /\ Invoke(Call("handleConfirmRename", "rename_file", file.path,
                           joinPath(getParentPath(file.path), normalizedName),
                           normalizedName, file, file, file.path))
    /\ selectedFile' = file
    /\ lastOp' = NoOp
    /\ UNCHANGED <<items, currentPath, files, deleteTarget,
                   clipboardItem, draggedPath>>
    /\ UNCHANGED <<listVars, thumbVars, syncVars, resolveVars,
                   navVars, pagesVars>>

\* handleUploadFiles, one dropped file, up to its await
handleUploadFiles(fileName) ==
    /\ fileName \in Names
    /\ Idle
    /\ startsWithTgSaved(currentPath)
    /\ ~isRecycleBinPath(currentPath)
    /\ Invoke(Call("handleUploadFiles", "tg_upload_file_to_saved_messages",
                   EmptyPath, virtualToSavedPath(currentPath), fileName, NoFile,
                   NoFile, EmptyPath))
    /\ lastOp' = NoOp
    /\ UNCHANGED <<items, currentPath, files, selectedFile, deleteTarget,
                   clipboardItem, draggedPath>>
    /\ UNCHANGED <<listVars, thumbVars, syncVars, resolveVars,
                   navVars, pagesVars>>

\* indexSavedMessages: tg_index_saved_messages finds one new message, which
\* lands in its category's default folder
default_category_path == HomePath

tg_index_saved_messages(fileName) ==
    /\ fileName \in Names
    /\ nCalls < MaxCalls
    /\ FreeSlots(items) # {}
    /\ LET i == CHOOSE j \in FreeSlots(items) : TRUE
       IN  items' = upsert_saved_item(items, i, fileName,
                                      default_category_path).items
    /\ nCalls' = nCalls + 1
    /\ lastOp' = Op("tg_index_saved_messages", EmptyPath, default_category_path, "ok")
    /\ UNCHANGED <<currentPath, files, selectedFile, deleteTarget,
                   clipboardItem, draggedPath, calls>>
    /\ UNCHANGED <<listVars, thumbVars, syncVars, resolveVars,
                   navVars, pagesVars>>

RealCommands == {"fs_delete", "move_file", "copy_file", "fs_create_dir", "rename_file"}

\* The command of call c on row i (or, for a creation, into slot i)
Backend(its, c, i, remoteOk) ==
    CASE c.cmd = "tg_move_saved_item" ->
            move(its, i, virtualToSavedPath(c.dst))
      [] c.cmd = "tg_move_saved_item_to_recycle_bin" -> move_to_recycle_bin(its, i)
      [] c.cmd = "tg_restore_saved_item" -> restore(its, i)
      [] c.cmd = "tg_delete_saved_item_permanently" ->
            delete_permanently(its, i, remoteOk)
      [] c.cmd = "tg_rename_saved_item" -> rename(its, i, c.name)
      [] c.cmd = "tg_create_saved_folder" -> create_folder(its, i, c.dst, c.name)
      [] c.cmd = "tg_upload_file_to_saved_messages" ->
            upsert_saved_item(its, i, c.name, c.dst)
      [] OTHER -> Outcome(its, IF remoteOk THEN "ok" ELSE "FsError")

\* The rows (or free slots) the command of call c may act on
Targets(its, c) ==
    IF c.cmd \in {"tg_create_saved_folder", "tg_upload_file_to_saved_messages"}
    THEN FreeSlots(its)
    ELSE IF c.cmd \in RealCommands THEN {0}
    ELSE Resolve(its, c.src)

Remove(seq, k) == SubSeq(seq, 1, k - 1) \o SubSeq(seq, k + 1, Len(seq))

\* What a handler does after its await: the rest of try on success, catch
\* on failure, then finally.  out is what the backend answered.
Reload(c, out) ==
    IF out.result = "ok"
    THEN /\ currentPath' = c.path
         /\ files' = loadDirectory(out.items, c.path)
    ELSE UNCHANGED <<currentPath, files>>

\* handleDelete removing the row from the listing before the answer is known
afterDeleteOptimistic(c, out) ==
    /\ currentPath' = c.path
    /\ files' = loadDirectory(out.items, c.path) \ {c.target}
    /\ deleteTarget' = NoFile
    /\ selectedFile' = IF c.selHit THEN NoFile ELSE selectedFile
    /\ UNCHANGED <<clipboardItem, draggedPath>>

afterDelete(c, out) ==
    /\ Reload(c, out)
    /\ deleteTarget' = IF out.result = "ok" THEN NoFile ELSE deleteTarget
    /\ selectedFile' = IF out.result = "ok" /\ c.selHit THEN NoFile ELSE selectedFile
    /\ UNCHANGED <<clipboardItem, draggedPath>>

afterRestore(c, out) ==
    /\ Reload(c, out)
    /\ selectedFile' = IF out.result = "ok" /\ c.selHit THEN NoFile ELSE selectedFile
    /\ UNCHANGED <<deleteTarget, clipboardItem, draggedPath>>

afterPaste(c, out) ==
    /\ Reload(c, out)
    /\ clipboardItem' = IF out.result = "ok" /\ c.cmd # "copy_file"
                        THEN NoClip ELSE clipboardItem
    /\ selectedFile' = IF out.result = "ok" /\ c.cmd = "move_file" /\ c.selHit
                       THEN NoFile ELSE selectedFile
    /\ UNCHANGED <<deleteTarget, draggedPath>>

afterDrop(c, out) ==
    /\ Reload(c, out)
    /\ selectedFile' = IF out.result = "ok" /\ c.selHit THEN NoFile ELSE selectedFile
    /\ draggedPath' = EmptyPath
    /\ UNCHANGED <<deleteTarget, clipboardItem>>

afterRename(c, out) ==
    /\ Reload(c, out)
    /\ selectedFile' = IF out.result = "ok" /\ c.selHit
                       THEN [c.target EXCEPT !.name = c.name] ELSE selectedFile
    /\ UNCHANGED <<deleteTarget, clipboardItem, draggedPath>>

afterCreate(c, out) ==
    /\ Reload(c, out)
    /\ UNCHANGED <<selectedFile, deleteTarget, clipboardItem, draggedPath>>

Continue(c, out) ==
    CASE c.via = "handleDelete" -> afterDelete(c, out)
      [] c.via = "handleRestoreFromRecycleBin" -> afterRestore(c, out)
      [] c.via = "handlePaste" -> afterPaste(c, out)
      [] c.via = "handleItemDrop" -> afterDrop(c, out)
      [] c.via = "handleConfirmRename" -> afterRename(c, out)
      [] OTHER -> afterCreate(c, out)

\* A call in flight is served by the backend and its handler resumes
Complete(k, remoteOk) ==
    /\ k \in 1..Len(calls)
    /\ LET c == calls[k]
       IN  IF Targets(items, c) = {}
           THEN /\ items' = items
                /\ lastOp' = Op(c.cmd, c.src, c.dst, "NotFound")
                /\ Continue(c, Outcome(items, "NotFound"))
           ELSE \E i \in Targets(items, c) :
                  LET out == Backend(items, c, i, remoteOk)
                  IN  /\ items' = out.items
                      /\ lastOp' = [Op(c.cmd, c.src, c.dst, out.result)
                                        EXCEPT !.row = i]
                      /\ Continue(c, out)
    /\ calls' = Remove(calls, k)
    /\ UNCHANGED nCalls
    /\ UNCHANGED <<listVars, thumbVars, syncVars, resolveVars,
                   navVars, pagesVars>>

(***************************************************************************)
(* Paging and the path cache.  A listing is a sequence of ranges of rows:  *)
(* [path, ver, lo, hi] stands for rows lo .. hi-1 of path as the index     *)
(* held them when the rows under path had changed ver times.               *)
(***************************************************************************)
SAVED_ITEMS_PAGE_SIZE == 50

RowCount(path) == IF path = SavedRoot THEN RootRows ELSE FolderRows

Rows(path, ver, lo, hi) ==
    IF lo < hi THEN <<[path |-> path, ver |-> ver, lo |-> lo, hi |-> hi]>>
    ELSE <<>>

Min(a, b) == IF a < b THEN a ELSE b

RECURSIVE length(_)
\* allItems.length
length(list) ==
    IF list = <<>> THEN 0
    ELSE (list[1].hi - list[1].lo) + length(Tail(list))

\* tg_list_saved_items_page(file_path, offset, limit), read at version ver
tg_list_saved_items_page(path, ver, offset, limit) ==
    LET hi == Min(offset + limit, RowCount(path))
        page == Rows(path, ver, offset, hi)
    IN  [items |-> page,
         has_more |-> hi < RowCount(path),
         next_offset |-> offset + length(page)]

\* tg_list_saved_items(file_path) over a large directory, read at version ver
tg_list_all_saved_items(path, ver) == Rows(path, ver, 0, RowCount(path))

cacheSavedPath(cache, path, list, nextOffset, hasMore, isCompleteSnapshot) ==
    [cache EXCEPT ![path] =
        [items |-> list, nextOffset |-> nextOffset, hasMore |-> hasMore,
         isCompleteSnapshot |-> isCompleteSnapshot]]

\* A list request in flight: kind "page" (tg_list_saved_items_page) or
\* "all" (tg_list_saved_items), the caller that awaits it (via), and snap,
\* the version the backend read (-1 until it has read)
Request(kind, via, path, offset, append) ==
    [kind |-> kind, via |-> via, path |-> path, offset |-> offset,
     append |-> append, snap |-> -1]

CanRequest == Len(requests) < MaxRequests

\* applySavedPathCache(path), taken when the cache holds path
applySavedPathCache(path) ==
    /\ filesRef' = savedPathCache[path].items
    /\ savedItemsOffset' = savedPathCache[path].nextOffset
    /\ hasMoreSavedItems' = savedPathCache[path].hasMore
    /\ currentPath' = path
    /\ lastOp' = Op("applySavedPathCache", path, EmptyPath, "hit")

\* loadDirectory(path, {force}) up to its await
loadDirectoryPaged(path, force) ==
    /\ lastLoad' = Load(path, IF ~force /\ savedPathCache[path] # NoEntry
                               THEN "shown" ELSE "pending")
    /\ IF ~force /\ savedPathCache[path] # NoEntry
       THEN /\ applySavedPathCache(path)
            /\ IF isSavedSyncComplete /\ ~savedPathCache[path].isCompleteSnapshot
               THEN /\ CanRequest
                    /\ requests' = Append(requests,
                           Request("all", "upgrade", path, 0, FALSE))
               ELSE UNCHANGED requests
            /\ UNCHANGED isLoading
       ELSE /\ CanRequest
            /\ isLoading' = TRUE
            /\ savedItemsOffset' = 0
            /\ hasMoreSavedItems' = FALSE
            /\ requests' = Append(requests,
                   Request(IF isSavedSyncComplete THEN "all" ELSE "page",
                           "loadDirectory", path, 0, FALSE))
            /\ lastOp' = Op("loadDirectory", path, EmptyPath,
                               IF force THEN "force" ELSE "miss")
            /\ UNCHANGED <<filesRef, currentPath>>

\* The page just mounted: loadDirectory("tg://saved") and
\* runSavedMessageSync are under way
InitList ==
    /\ InitHandlers
    /\ files = {}
    /\ isLoading = TRUE
    /\ isSavedBackfillSyncing = TRUE
    /\ requests = <<Request("page", "loadDirectory", SavedRoot, 0, FALSE)>>
    /\ lastLoad = Load(SavedRoot, "pending")

\* handleNavigateEvent (the sidebar): the current path is reloaded, another
\* path may come from the cache
handleNavigateEvent(path) ==
    /\ path \in ListPaths
    /\ loadDirectoryPaged(path, path = currentPath)
    /\ UNCHANGED <<isLoadingMoreSavedItems, isSavedBackfillSyncing,
                   isSavedSyncComplete, savedPathCache, pathVer>>
    /\ UNCHANGED <<pageVars, thumbVars, syncVars, resolveVars,
                   navVars, pagesVars>>

\* navigateToPath / handleGoBack / handleGoForward: loadDirectory(path),
\* never forced
navigateToPath(path) ==
    /\ path \in ListPaths
    /\ loadDirectoryPaged(path, FALSE)
    /\ UNCHANGED <<isLoadingMoreSavedItems, isSavedBackfillSyncing,
                   isSavedSyncComplete, savedPathCache, pathVer>>
    /\ UNCHANGED <<pageVars, thumbVars, syncVars, resolveVars,
                   navVars, pagesVars>>

\* handleDirectoryScroll / loadMoreSavedItems up to its await
loadMoreSavedItems ==
    /\ startsWithTgSaved(currentPath)
    /\ ~(isLoading \/ isLoadingMoreSavedItems)
    /\ ~isSavedSyncComplete
    /\ hasMoreSavedItems \/ isSavedBackfillSyncing
    /\ CanRequest
    /\ isLoadingMoreSavedItems' = TRUE
    /\ requests' = Append(requests,
            Request("page", "loadMore", currentPath, savedItemsOffset, TRUE))
    /\ lastOp' = NoOp
    /\ UNCHANGED <<currentPath, filesRef, savedItemsOffset, hasMoreSavedItems,
                   isLoading, isSavedBackfillSyncing, isSavedSyncComplete,
                   savedPathCache, pathVer, lastLoad>>
    /\ UNCHANGED <<pageVars, thumbVars, syncVars, resolveVars,
                   navVars, pagesVars>>

\* The backend reads the rows a list request asks for
Serve(k) ==
    /\ k \in 1..Len(requests)
    /\ requests[k].snap = -1
    /\ requests' = [requests EXCEPT ![k].snap = pathVer[requests[k].path]]
    /\ lastOp' = NoOp
    /\ UNCHANGED <<currentPath, filesRef, savedItemsOffset, hasMoreSavedItems,
                   isLoading, isLoadingMoreSavedItems, isSavedBackfillSyncing,
                   isSavedSyncComplete, savedPathCache, pathVer,
                   lastLoad>>
    /\ UNCHANGED <<pageVars, thumbVars, syncVars, resolveVars,
                   navVars, pagesVars>>

\* loadSavedItemsPage putting the new page in front of the listing
loadSavedItemsPagePrepend(r) ==
    LET result == tg_list_saved_items_page(r.path, r.snap, r.offset,
                                           SAVED_ITEMS_PAGE_SIZE)
        mergedItems == IF r.append THEN result.items \o filesRef
                       ELSE result.items
    IN  /\ filesRef' = mergedItems
        /\ savedItemsOffset' = result.next_offset
        /\ hasMoreSavedItems' = result.has_more
        /\ currentPath' = r.path
        /\ savedPathCache' = cacheSavedPath(savedPathCache, r.path, mergedItems,
                                            result.next_offset, result.has_more,
                                            FALSE)

\* loadSavedItemsPage(path, offset, append) after its await
loadSavedItemsPage(r) ==
    LET result == tg_list_saved_items_page(r.path, r.snap, r.offset,
                                           SAVED_ITEMS_PAGE_SIZE)
        mergedItems == IF r.append THEN filesRef \o result.items
                       ELSE result.items
    IN  /\ filesRef' = mergedItems
        /\ savedItemsOffset' = result.next_offset
        /\ hasMoreSavedItems' = result.has_more
        /\ currentPath' = r.path
        /\ savedPathCache' = cacheSavedPath(savedPathCache, r.path, mergedItems,
                                            result.next_offset, result.has_more,
                                            FALSE)

\* loadAllSavedItems(path) after its await
loadAllSavedItems(r) ==
    LET allItems == tg_list_all_saved_items(r.path, r.snap)
    IN  /\ filesRef' = allItems
        /\ savedItemsOffset' = length(allItems)
        /\ hasMoreSavedItems' = FALSE
        /\ currentPath' = r.path
        /\ savedPathCache' = cacheSavedPath(savedPathCache, r.path, allItems,
                                            length(allItems), FALSE, TRUE)

\* What the caller of the request does once it has settled (finally)
Settle(r) ==
    /\ isLoading' = IF r.via = "loadDirectory" THEN FALSE ELSE isLoading
    /\ isLoadingMoreSavedItems' =
          IF r.via = "loadMore" THEN FALSE ELSE isLoadingMoreSavedItems
    /\ isSavedBackfillSyncing' =
          IF r.via = "sync" THEN FALSE ELSE isSavedBackfillSyncing

ListCommand(r) ==
    IF r.kind = "page" THEN "tg_list_saved_items_page"
    ELSE "tg_list_saved_items"

\* requests[k] is the request the latest loadDirectory call awaits
IsLastLoad(k) ==
    /\ lastLoad.state = "pending"
    /\ requests[k].via = "loadDirectory"
    /\ \A j \in (k + 1)..Len(requests) : requests[j].via # "loadDirectory"

\* The answer to a list request arrives and its caller resumes
Respond(k, ok) ==
    /\ k \in 1..Len(requests)
    /\ LET r == requests[k]
       IN  /\ IF ok
              THEN /\ r.snap # -1
                   /\ r.append => Len(filesRef) < MaxChunks
                   /\ IF r.kind = "page" THEN loadSavedItemsPage(r)
                      ELSE loadAllSavedItems(r)
              ELSE \* catch: loadMoreSavedItems gives up on further pages
                   /\ hasMoreSavedItems' =
                         IF r.via = "loadMore" THEN FALSE ELSE hasMoreSavedItems
                   /\ UNCHANGED <<filesRef, savedItemsOffset, currentPath,
                                  savedPathCache>>
           /\ Settle(r)
    /\ requests' = Remove(requests, k)
    /\ lastOp' = [Op(ListCommand(requests[k]), requests[k].path, EmptyPath,
                      IF ok THEN "ok" ELSE "failed")
                      EXCEPT !.row = k]
    /\ lastLoad' = IF IsLastLoad(k)
                   THEN Load(lastLoad.path, IF ok THEN "shown" ELSE "failed")
                   ELSE lastLoad
    /\ UNCHANGED <<isSavedSyncComplete, pathVer>>
    /\ UNCHANGED <<pageVars, thumbVars, syncVars, resolveVars,
                   navVars, pagesVars>>

\* A mutating handler (create folder, rename, move, recycle, restore,
\* delete, upload) resumes after its command succeeded on rows under path
\* touched: savedPathCacheRef.current = {} and loadDirectory(currentPath,
\* {force: true})
mutationDone(touched) ==
    /\ touched \in ListPaths
    /\ pathVer[SavedRoot] + pathVer[SavedFolder] < MaxVer
    /\ pathVer' = [pathVer EXCEPT ![touched] = @ + 1]
    /\ savedPathCache' = EmptyCache
    /\ loadDirectoryPaged(currentPath, TRUE)
    /\ UNCHANGED <<isLoadingMoreSavedItems, isSavedBackfillSyncing,
                   isSavedSyncComplete>>
    /\ attempt' = NoAttempt
    /\ UNCHANGED <<backHistory, forwardHistory, timeline>>
    /\ UNCHANGED <<pageVars, thumbVars, syncVars, resolveVars, pagesVars>>

\* What indexSavedMessages answers: null when tg_index_saved_messages has
\* failed, else a result with total_new_messages = 0 or > 0
SyncResults == {"null", "none", "new"}

\* runSavedMessageSync after indexSavedMessages has settled; a failed
\* indexing answers null, which counts as no new messages
runSavedMessageSync(syncResult) ==
    /\ isSavedBackfillSyncing
    /\ ~isSavedSyncComplete
    /\ isSavedSyncComplete' = TRUE
    /\ hasMoreSavedItems' = FALSE
    /\ IF /\ startsWithTgSaved(currentPath)
          /\ syncResult = "new" \/ ~savedPathCache[currentPath].isCompleteSnapshot
       THEN /\ CanRequest
            /\ requests' = Append(requests,
                   Request("all", "sync", currentPath, 0, FALSE))
            /\ UNCHANGED isSavedBackfillSyncing
       ELSE /\ isSavedBackfillSyncing' = FALSE
            /\ UNCHANGED requests
    /\ lastOp' = Op("runSavedMessageSync", currentPath, EmptyPath, syncResult)
    /\ UNCHANGED <<currentPath, filesRef, savedItemsOffset, isLoading,
                   isLoadingMoreSavedItems, savedPathCache, pathVer,
                   lastLoad>>
    /\ UNCHANGED <<pageVars, thumbVars, syncVars, resolveVars,
                   navVars, pagesVars>>

NextList ==
    \/ \E p \in ListPaths : handleNavigateEvent(p)
    \/ \E p \in ListPaths : navigateToPath(p)
    \/ loadMoreSavedItems
    \/ \E k \in 1..MaxRequests : Serve(k)
    \/ \E k \in 1..MaxRequests, ok \in BOOLEAN : Respond(k, ok)
    \/ \E p \in ListPaths : mutationDone(p)
    \/ \E r \in SyncResults : runSavedMessageSync(r)

SpecList == InitList /\ [][NextList]_vars

\* The same page while every list call succeeds
NextListOk ==
    \/ \E p \in ListPaths : handleNavigateEvent(p)
    \/ \E p \in ListPaths : navigateToPath(p)
    \/ loadMoreSavedItems
    \/ \E k \in 1..MaxRequests : Serve(k)
    \/ \E k \in 1..MaxRequests : Respond(k, TRUE)
    \/ \E p \in ListPaths : mutationDone(p)
    \/ \E r \in SyncResults : runSavedMessageSync(r)

SpecListOk == InitList /\ [][NextListOk]_vars

(***************************************************************************)
(* The navigation history: navigateToPath, handleGoBack, handleGoForward   *)
(* (the toolbar, Alt+Arrow in handleKeyDown and the mouse buttons in       *)
(* handleMouseNavigationButtons run the same steps) and handlePopState.    *)
(* Each handler reads backHistory, forwardHistory and currentPath as last  *)
(* rendered, changes the stacks, and then awaits loadDirectory;            *)
(* currentPath follows only when the load succeeds.                        *)
(***************************************************************************)
Reverse(s) == [i \in 1..Len(s) |-> s[Len(s) + 1 - i]]

\* The visited paths in order: back stack, current path, forward stack
History == backHistory \o <<currentPath>> \o Reverse(forwardHistory)

Attempt ==
    [settled |-> requests = <<>>, back |-> backHistory,
     forward |-> forwardHistory, path |-> currentPath, files |-> filesRef]

\* loadDirectory(path) as called by a history handler
loadDirectoryFrom(path) ==
    /\ loadDirectoryPaged(path, FALSE)
    /\ attempt' = Attempt
    /\ UNCHANGED <<isLoadingMoreSavedItems, isSavedBackfillSyncing,
                   isSavedSyncComplete, savedPathCache, pathVer>>
    /\ UNCHANGED <<pageVars, thumbVars, syncVars, resolveVars, pagesVars>>

\* navigateToPath(path): a folder opened, a breadcrumb or a sidebar entry
handleNavigateToPath(path) ==
    /\ path \in ListPaths
    /\ IF path = currentPath
       THEN UNCHANGED <<backHistory, forwardHistory, timeline>>
       ELSE /\ Len(backHistory) < MaxHistory
            /\ backHistory' = Append(backHistory, currentPath)
            /\ forwardHistory' = <<>>
            /\ timeline' = NoTimeline
    /\ loadDirectoryFrom(path)

\* The step back: the top of backHistory is loaded, the path on screen
\* goes onto forwardHistory
stepBack ==
    /\ backHistory # <<>>
    /\ backHistory' = SubSeq(backHistory, 1, Len(backHistory) - 1)
    /\ forwardHistory' = Append(forwardHistory, currentPath)
    /\ timeline' = IF requests = <<>> THEN History ELSE timeline
    /\ loadDirectoryFrom(backHistory[Len(backHistory)])

\* handleGoBack, not held back while a load is under way
handleGoBack == stepBack

\* handleGoForward
handleGoForward ==
    /\ forwardHistory # <<>>
    /\ forwardHistory' = SubSeq(forwardHistory, 1, Len(forwardHistory) - 1)
    /\ backHistory' = Append(backHistory, currentPath)
    /\ timeline' = IF requests = <<>> THEN History ELSE timeline
    /\ loadDirectoryFrom(forwardHistory[Len(forwardHistory)])

\* handlePopState (the browser's back): ignored while a load is under way
handlePopState ==
    /\ ~isLoading
    /\ stepBack

NextNavOk ==
    \/ \E p \in ListPaths : handleNavigateToPath(p)
    \/ handleGoBack
    \/ handleGoForward
    \/ handlePopState
    \/ \E k \in 1..MaxRequests : Serve(k)
    \/ \E k \in 1..MaxRequests : Respond(k, TRUE)
    \/ \E p \in ListPaths : mutationDone(p)

\* The history while every load succeeds
SpecNavOk == InitList /\ [][NextNavOk]_vars

NextNav ==
    \/ \E p \in ListPaths : handleNavigateToPath(p)
    \/ handleGoBack
    \/ handleGoForward
    \/ handlePopState
    \/ \E k \in 1..MaxRequests : Serve(k)
    \/ \E k \in 1..MaxRequests, ok \in BOOLEAN : Respond(k, ok)
    \/ \E p \in ListPaths : mutationDone(p)

\* The history while a load may fail
SpecNav == InitList /\ [][NextNav]_vars

(***************************************************************************)
(* LoginPage: the QR flow.  generateQrCode awaits tg_generate_qr_code and  *)
(* then calls startQrPolling; each startQrPolling call starts a chain of   *)
(* poll() runs, one tg_poll_qr_login call or one pending timer at a time.  *)
(* All chains read the one pollingRef.  The two effects on                 *)
(* [loginMode, step] run right after the render that changed either.       *)
(***************************************************************************)
explorerVars == <<pageVars, listVars, thumbVars, syncVars, resolveVars,
                  navVars, currentPath, lastOp>>

\* QrPollResult.status; Success comes with or without user_info, Error
\* with or without a migration message; throws: the invoke rejects
PollResults ==
    {"Success", "SuccessNoUser", "PasswordRequired", "Expired", "Migration",
     "Error", "Pending", "throws"}

\* The results after which poll() sets its next timer
PollAgain == {"Error", "Pending", "throws"}

\* The QR card is rendered
OnQrScreen(mode, st) == mode = "qr" /\ st = "phone"

\* The page is on screen and its effects have run
LoginMounted == route = "/login" /\ nGens > 0

\* generateQrCode() up to its await
generateQrCode ==
    /\ nGens < MaxGens
    /\ nGens' = nGens + 1
    /\ gens' = gens + 1
    /\ qrEvent' = QrEvent("tg_generate_qr_code", 0, "")

\* The auto-generate effect, then the stop-polling effect, with loginMode
\* = mode and step = st; event: what the handler itself did
Effects(mode, st, polling, migrating, event) ==
    IF OnQrScreen(mode, st)
    THEN /\ IF ~qrStartedRef
            THEN /\ qrStartedRef' = TRUE
                 /\ generateQrCode
            ELSE /\ qrEvent' = event
                 /\ UNCHANGED <<qrStartedRef, gens, nGens>>
         /\ pollingRef' = polling
         /\ isMigratingRef' = migrating
    ELSE /\ qrStartedRef' = FALSE
         /\ pollingRef' = FALSE
         /\ isMigratingRef' = IF polling THEN FALSE ELSE migrating
         /\ qrEvent' = event
         /\ UNCHANGED <<gens, nGens>>

\* The first render of the page
mountLoginPage ==
    /\ route = "/login"
    /\ nGens = 0
    /\ Effects(loginMode, step, pollingRef, isMigratingRef,
               QrEvent("mount", 0, ""))
    /\ UNCHANGED <<step, loginMode, loops, nLoops, regenTimers, route>>
    /\ UNCHANGED <<explorerVars, loadingVars>>

\* startQrPolling(): the first poll() runs at once
startQrPolling ==
    /\ pollingRef' = TRUE
    /\ isMigratingRef' = FALSE
    /\ nLoops' = nLoops + 1
    /\ loops' = [loops EXCEPT ![nLoops + 1] = "call"]
    /\ qrEvent' = QrEvent("tg_poll_qr_login", nLoops + 1, "")

\* generateQrCode after its await: tg_generate_qr_code has answered
generateQrCodeAnswered(ok) ==
    /\ LoginMounted
    /\ gens > 0
    /\ gens' = gens - 1
    /\ IF ok
       THEN startQrPolling
       ELSE /\ qrEvent' = QrEvent("generateQrCode failed", 0, "")
            /\ UNCHANGED <<pollingRef, isMigratingRef, loops, nLoops>>
    /\ UNCHANGED <<step, loginMode, qrStartedRef, nGens, regenTimers, route>>
    /\ UNCHANGED <<explorerVars, loadingVars>>

\* The timer set on Expired fires
regenerate ==
    /\ LoginMounted
    /\ regenTimers > 0
    /\ regenTimers' = regenTimers - 1
    /\ generateQrCode
    /\ UNCHANGED <<step, loginMode, pollingRef, isMigratingRef, qrStartedRef,
                   loops, nLoops, route>>
    /\ UNCHANGED <<explorerVars, loadingVars>>

\* poll() run by its timer
poll(l) ==
    /\ LoginMounted
    /\ loops[l] = "timer"
    /\ IF ~pollingRef
       THEN /\ loops' = [loops EXCEPT ![l] = "ended"]
            /\ qrEvent' = QrEvent("returned", l, "")
       ELSE IF isMigratingRef
            THEN /\ qrEvent' = QrEvent("skipped", l, "")
                 /\ UNCHANGED loops
            ELSE /\ loops' = [loops EXCEPT ![l] = "call"]
                 /\ qrEvent' = QrEvent("tg_poll_qr_login", l, "")
    /\ UNCHANGED <<step, loginMode, pollingRef, isMigratingRef, qrStartedRef,
                   nLoops, gens, nGens, regenTimers, route>>
    /\ UNCHANGED <<explorerVars, loadingVars>>

\* poll() after its await: tg_poll_qr_login has answered
pollAnswered(l, result) ==
    /\ LoginMounted
    /\ loops[l] = "call"
    /\ IF ~pollingRef
       THEN /\ loops' = [loops EXCEPT ![l] = "ended"]
            /\ qrEvent' = QrEvent("returned", l, result)
            /\ UNCHANGED <<step, pollingRef, isMigratingRef, qrStartedRef,
                           gens, nGens, regenTimers, route>>
       ELSE /\ loops' = [loops EXCEPT ![l] =
                            IF result \in PollAgain THEN "timer" ELSE "ended"]
            /\ step' = IF result = "PasswordRequired" THEN "password" ELSE step
            /\ route' = IF result = "Success" THEN "/explorer" ELSE route
            /\ regenTimers' =
                  IF result = "Expired" THEN regenTimers + 1 ELSE regenTimers
            /\ IF step' # step
               THEN Effects(loginMode, step', FALSE, FALSE,
                            QrEvent("handled", l, result))
               ELSE /\ pollingRef' = (result \in PollAgain)
                    /\ isMigratingRef' = (result = "Migration")
                    /\ qrEvent' = QrEvent("handled", l, result)
                    /\ UNCHANGED <<qrStartedRef, gens, nGens>>
    /\ UNCHANGED <<loginMode, nLoops>>
    /\ UNCHANGED <<explorerVars, loadingVars>>

\* A handler that sets loginMode or step; the effects follow
setLoginState(mode, st, name) ==
    /\ LoginMounted
    /\ loginMode' = mode
    /\ step' = st
    /\ Effects(mode, st, pollingRef, isMigratingRef, QrEvent(name, 0, ""))
    /\ UNCHANGED <<loops, nLoops, regenTimers, route>>
    /\ UNCHANGED <<explorerVars, loadingVars>>

\* "Log in with phone number" / "Log in with QR code"
setLoginMode(mode) ==
    /\ step = "phone"
    /\ loginMode # mode
    /\ setLoginState(mode, step, "setLoginMode")

\* handlePhoneSubmit: the code was sent
handlePhoneSubmit ==
    /\ OnQrScreen(loginMode, step) = FALSE
    /\ step = "phone"
    /\ setLoginState(loginMode, "otp", "handlePhoneSubmit")

\* handleOtpComplete: the account asks for its password
handleOtpComplete ==
    /\ step = "otp"
    /\ setLoginState(loginMode, "password", "handleOtpComplete")

\* handleBack
handleBack ==
    /\ step # "phone" \/ loginMode = "phone"
    /\ IF step = "password"
       THEN setLoginState(loginMode,
                          IF loginMode = "qr" THEN "phone" ELSE "otp",
                          "handleBack")
       ELSE IF step = "otp"
            THEN setLoginState(loginMode, "phone", "handleBack")
            ELSE setLoginState("qr", step, "handleBack")

\* handleOtpComplete / handlePasswordSubmit: signed in
signedIn ==
    /\ LoginMounted
    /\ step \in {"otp", "password"}
    /\ route' = "/explorer"
    /\ qrEvent' = QrEvent("navigate", 0, "")
    /\ UNCHANGED <<step, loginMode, pollingRef, isMigratingRef, qrStartedRef,
                   loops, nLoops, gens, nGens, regenTimers>>
    /\ UNCHANGED <<explorerVars, loadingVars>>

\* The login page just routed to
InitLogin ==
    /\ InitOn(SavedRoot, "/login")
    /\ files = {}
    /\ isLoading = FALSE
    /\ isSavedBackfillSyncing = FALSE
    /\ requests = <<>>
    /\ lastLoad = Load(SavedRoot, "pending")

NextLogin ==
    \/ mountLoginPage
    \/ \E ok \in BOOLEAN : generateQrCodeAnswered(ok)
    \/ regenerate
    \/ \E l \in 1..MaxGens : poll(l)
    \/ \E l \in 1..MaxGens, r \in PollResults : pollAnswered(l, r)
    \/ \E m \in {"qr", "phone"} : setLoginMode(m)
    \/ handlePhoneSubmit
    \/ handleOtpComplete
    \/ handleBack
    \/ signedIn

SpecLogin == InitLogin /\ [][NextLogin]_vars

(***************************************************************************)
(* LoadingPage: one second after the mount checkLoginStatus looks up the   *)
(* stored session (db_get_session, at most 8 s) and, when it holds session *)
(* data and the device is online, restores it (tg_restore_session, at most *)
(* 10 s).  Time is counted in seconds; a call may answer until its timeout *)
(* has fired.  The page is unmounted by its own navigate() call.           *)
(***************************************************************************)
otherThanLoading == <<pageVars, listVars, thumbVars, syncVars, resolveVars,
                      navVars, currentPath, lastOp, loginVars>>

\* setTimeout(() => checkLoginStatus(), 1000)
StartDelay == 1

\* withTimeout(invoke("db_get_session"), 8000)
SessionTimeout == 8

\* withTimeout(invoke("tg_restore_session"), 10000)
RestoreTimeout == 10

\* How long the wait of a phase lasts at most
TimeLimit(ph) ==
    CASE ph = "timer" -> StartDelay
      [] ph = "db_get_session" -> SessionTimeout
      [] ph = "tg_restore_session" -> RestoreTimeout
      [] OTHER -> 0

\* What db_get_session answers: a session with session_data, a session
\* without, null, or a rejection
SessionOutcomes == {"data", "nodata", "null", "error"}

\* What tg_restore_session answers: authorized with user_info, authorized
\* without, not authorized, or a rejection
RestoreOutcomes == {"authorized", "nouser", "unauthorized", "error"}

LoadingMounted == route = "/"

\* navigate(r): the router unmounts the loading page
navigate(r) ==
    /\ navigated' = Append(navigated, r)
    /\ route' = r
    /\ phase' = "done"
    /\ UNCHANGED elapsed

\* A second passes
Tick ==
    /\ LoadingMounted
    /\ elapsed < TimeLimit(phase)
    /\ elapsed' = elapsed + 1
    /\ UNCHANGED <<phase, online, restoreResult, navigated, route>>
    /\ UNCHANGED otherThanLoading

\* The device goes offline or online
setOnline ==
    /\ LoadingMounted
    /\ online' = ~online
    /\ UNCHANGED <<phase, elapsed, restoreResult, navigated, route>>
    /\ UNCHANGED otherThanLoading

\* checkLoginStatus up to its first await
checkLoginStatus ==
    /\ LoadingMounted
    /\ phase = "timer"
    /\ elapsed = StartDelay
    /\ phase' = "db_get_session"
    /\ elapsed' = 0
    /\ UNCHANGED <<online, restoreResult, navigated, route>>
    /\ UNCHANGED otherThanLoading

\* db_get_session has answered within its time
sessionAnswered(outcome) ==
    /\ LoadingMounted
    /\ phase = "db_get_session"
    /\ IF outcome = "data"
       THEN IF ~online
            THEN navigate("/login")
            ELSE /\ phase' = "tg_restore_session"
                 /\ elapsed' = 0
                 /\ UNCHANGED <<navigated, route>>
       ELSE navigate("/login")
    /\ UNCHANGED <<online, restoreResult>>
    /\ UNCHANGED otherThanLoading

\* A withTimeout timer fires: "Loading timed out"
timedOut ==
    /\ LoadingMounted
    /\ phase \in {"db_get_session", "tg_restore_session"}
    /\ elapsed = TimeLimit(phase)
    /\ navigate("/login")
    /\ UNCHANGED <<online, restoreResult>>
    /\ UNCHANGED otherThanLoading

\* restoreAnswered without the test of result.user_info
restoreAnsweredAuthorized(result) ==
    /\ LoadingMounted
    /\ phase = "tg_restore_session"
    /\ restoreResult' = result
    /\ navigate(IF result \in {"authorized", "nouser"}
                THEN "/explorer" ELSE "/login")
    /\ UNCHANGED online
    /\ UNCHANGED otherThanLoading

\* tg_restore_session has answered within its time
restoreAnswered(result) ==
    /\ LoadingMounted
    /\ phase = "tg_restore_session"
    /\ restoreResult' = result
    /\ navigate(IF result = "authorized" THEN "/explorer" ELSE "/login")
    /\ UNCHANGED online
    /\ UNCHANGED otherThanLoading

\* The loading page just mounted
InitLoading ==
    /\ InitOn(SavedRoot, "/")
    /\ files = {}
    /\ isLoading = FALSE
    /\ isSavedBackfillSyncing = FALSE
    /\ requests = <<>>
    /\ lastLoad = Load(SavedRoot, "pending")

NextLoading ==
    \/ Tick
    \/ setOnline
    \/ checkLoginStatus
    \/ \E o \in SessionOutcomes : sessionAnswered(o)
    \/ timedOut
    \/ \E r \in RestoreOutcomes : restoreAnswered(r)

\* Time passes and the timers fire
SpecLoading ==
    /\ InitLoading
    /\ [][NextLoading]_vars
    /\ WF_vars(Tick)
    /\ WF_vars(checkLoginStatus)
    /\ WF_vars(timedOut)

(***************************************************************************)
(* Thumbnails: prefetchThumbnailsForItems (ExplorerPage.tsx:863-879) and   *)
(* the row components FileRow (FileRow.tsx:140-188) and FileGridItem.      *)
(***************************************************************************)
otherThanThumbs == <<pageVars, listVars, syncVars, resolveVars, navVars, pagesVars,
                    currentPath>>

Fetch(via, ids, inst) == [via |-> via, ids |-> ids, inst |-> inst]

CanFetch == Len(thumbFetches) < MaxFetches

\* prefetchThumbnailsForItems(items) for a listing holding messages S
prefetchThumbnailsForItems(S) ==
    LET messageIds == S \ prefetchedThumbnailIds
    IN  IF messageIds = {}
        THEN UNCHANGED <<prefetchedThumbnailIds, thumbFetches>>
        ELSE /\ CanFetch
             /\ prefetchedThumbnailIds' = prefetchedThumbnailIds \cup messageIds
             /\ thumbFetches' = Append(thumbFetches,
                                       Fetch("prefetch", messageIds, 0))

\* setFiles(list) and prefetchThumbnailsForItems(list) at the end of
\* applySavedPathCache, loadSavedItemsPage and loadAllSavedItems: the rows
\* of S are on screen; a row already there keeps its component (key =
\* file.path), the others mount
showListing(S) ==
    /\ S \subseteq ThumbIds
    /\ nMounts < MaxMounts
    /\ nMounts' = nMounts + 1
    /\ rows' = [id \in ThumbIds |->
                   IF id \notin S THEN NoRow
                   ELSE IF rows[id].mounted THEN rows[id]
                   ELSE MountedRow(id, nMounts + 1)]
    /\ prefetchThumbnailsForItems(S)
    /\ lastOp' = Op("setFiles", EmptyPath, EmptyPath, "ok")
    /\ UNCHANGED <<viewMode, retries, retryFailed>>
    /\ UNCHANGED otherThanThumbs

\* handleViewModeChange: FileRow and FileGridItem are different components,
\* so every row on screen mounts anew
handleViewModeChange ==
    /\ nMounts < MaxMounts
    /\ nMounts' = nMounts + 1
    /\ viewMode' = IF viewMode = "list" THEN "grid" ELSE "list"
    /\ rows' = [id \in ThumbIds |->
                   IF rows[id].mounted THEN MountedRow(id, nMounts + 1)
                   ELSE NoRow]
    /\ lastOp' = Op("handleViewModeChange", EmptyPath, EmptyPath, "ok")
    /\ UNCHANGED <<prefetchedThumbnailIds, thumbFetches, retries, retryFailed>>
    /\ UNCHANGED otherThanThumbs

\* The image of a row has loaded
imgLoad(id) ==
    /\ rows[id].mounted
    /\ rows[id].img = "pending"
    /\ rows' = [rows EXCEPT ![id].img = "ok"]
    /\ lastOp' = NoOp
    /\ UNCHANGED <<viewMode, nMounts, prefetchedThumbnailIds, thumbFetches,
                   retries, retryFailed>>
    /\ UNCHANGED otherThanThumbs

\* onError of the image of a row: refetchThumbnail up to its await
refetchThumbnail(id) ==
    /\ rows[id].mounted
    /\ rows[id].img = "pending"
    /\ IF rows[id].hasRetriedBrokenThumbnail
       THEN /\ rows' = [rows EXCEPT ![id].thumbUrl = "none", ![id].img = "none"]
            /\ UNCHANGED <<thumbFetches, retries>>
       ELSE /\ CanFetch
            /\ rows' = [rows EXCEPT ![id].hasRetriedBrokenThumbnail = TRUE,
                                    ![id].img = "error"]
            /\ thumbFetches' = Append(thumbFetches,
                                      Fetch("refetch", {id}, rows[id].inst))
            /\ retries' = [retries EXCEPT ![id] = @ + 1]
    /\ lastOp' = [Op("refetchThumbnail", EmptyPath, EmptyPath, "onError")
                      EXCEPT !.row = id]
    /\ UNCHANGED <<viewMode, nMounts, prefetchedThumbnailIds, retryFailed>>
    /\ UNCHANGED otherThanThumbs

\* tg_prefetch_message_thumbnails has settled: .catch forgets the ids
afterPrefetch(f, ok) ==
    /\ prefetchedThumbnailIds' =
          IF ok THEN prefetchedThumbnailIds
          ELSE prefetchedThumbnailIds \ f.ids
    /\ UNCHANGED <<rows, retryFailed>>

\* tg_get_message_thumbnail has settled and refetchThumbnail resumes; the
\* setters of a component that is no longer mounted do nothing
afterRefetch(f, ok) ==
    /\ rows' = [id \in ThumbIds |->
                   IF id \in f.ids /\ rows[id].mounted /\ rows[id].inst = f.inst
                   THEN IF ok
                        THEN [rows[id] EXCEPT !.thumbUrl = "refetched",
                                              !.img = "pending"]
                        ELSE [rows[id] EXCEPT !.thumbUrl = "none",
                                              !.img = "none"]
                   ELSE rows[id]]
    /\ retryFailed' = [id \in ThumbIds |->
                          retryFailed[id] \/ (id \in f.ids /\ ~ok)]
    /\ UNCHANGED prefetchedThumbnailIds

\* A thumbnail call in flight settles
thumbDone(k, ok) ==
    /\ k \in 1..Len(thumbFetches)
    /\ IF thumbFetches[k].via = "prefetch"
       THEN afterPrefetch(thumbFetches[k], ok)
       ELSE afterRefetch(thumbFetches[k], ok)
    /\ thumbFetches' = Remove(thumbFetches, k)
    /\ lastOp' = NoOp
    /\ UNCHANGED <<viewMode, nMounts, retries>>
    /\ UNCHANGED otherThanThumbs

NextThumb ==
    \/ \E S \in SUBSET ThumbIds : showListing(S)
    \/ handleViewModeChange
    \/ \E id \in ThumbIds : imgLoad(id)
    \/ \E id \in ThumbIds : refetchThumbnail(id)
    \/ \E k \in 1..MaxFetches, ok \in BOOLEAN : thumbDone(k, ok)

SpecThumb == Init /\ [][NextThumb]_vars

(***************************************************************************)
(* The indexer over the remote stream (spec 4.1, 6): index_new,            *)
(* backfill_batch, rebuild_index, and the recycle and delete of a message  *)
(* as far as the existence of its row goes (spec 4.3).                     *)
(***************************************************************************)
otherThanSync == <<pageVars, listVars, thumbVars, resolveVars, navVars, pagesVars,
                  currentPath>>

Range(seq) == {seq[j] : j \in 1..Len(seq)}

\* Where the messages older than message_id start in the stream
\* (Len(remote) + 1 when there are none)
OlderFrom(message_id) ==
    CHOOSE i \in 1..(Len(remote) + 1) :
        /\ i = Len(remote) + 1 \/ remote[i] < message_id
        /\ i = 1 \/ remote[i - 1] >= message_id

\* the adapter saying that older history remains whenever it returned
\* anything
fetchBeforeEager(message_id, batch_size) ==
    LET start == OlderFrom(message_id)
        end == Min(start + batch_size - 1, Len(remote))
    IN  [messages |-> SubSeq(remote, start, end), has_more |-> start <= end]

\* fetch_before(message_id, batch_size) -> (ordered[RawMessage], has_more)
fetch_before(message_id, batch_size) ==
    LET start == OlderFrom(message_id)
        end == Min(start + batch_size - 1, Len(remote))
    IN  [messages |-> SubSeq(remote, start, end),
         has_more |-> end < Len(remote)]

\* fetch_since(message_id) -> ordered[RawMessage], oldest first: the
\* messages above message_id are the first of the stream
fetch_since(message_id) ==
    LET n == OlderFrom(message_id + 1) - 1
    IN  [j \in 1..n |-> remote[n + 1 - j]]

\* a plain insert of one row per message
insertSavedItems(table, ids) ==
    [id \in MsgRange |-> IF id \in ids THEN table[id] + 1 ELSE table[id]]

\* upsert_saved_item for each message of ids: keyed by message_id, a
\* message that has a row keeps that row
upsertSavedItems(table, ids) ==
    [id \in MsgRange |->
        IF id \in ids /\ table[id] = 0 THEN 1 ELSE table[id]]

\* The highest message id that has a row (0 when there is none)
HighestIndexed ==
    LET top == RemoteHistory + MaxNew
    IN  CHOOSE id \in 0..top :
           /\ id = 0 \/ savedRows[id] > 0
           /\ \A y \in (id + 1)..top : savedRows[y] = 0

SyncOp(op, count, res) ==
    [Op(op, EmptyPath, EmptyPath, res) EXCEPT !.row = count]

\* A message arrives in the remote stream
arrive ==
    /\ \E id \in MsgRange \ (1..RemoteHistory) :
          /\ id \notin deletedIds
          /\ remote = <<>> \/ remote[1] < id
          /\ remote' = <<id>> \o remote
    /\ lastOp' = NoOp
    /\ UNCHANGED <<rawCache, savedRows, recycledIds, checkpoint, okBackfills,
                   deletedIds>>
    /\ UNCHANGED otherThanSync

\* index_new(): the messages newer than the highest indexed id, in
\* ascending order; a failure keeps the rows upserted before it
index_new(ok, done) ==
    /\ HighestIndexed # 0
    /\ LET new == fetch_since(HighestIndexed)
           upserted == IF ok THEN Range(new)
                       ELSE Range(SubSeq(new, 1, done))
       IN  /\ ~ok => done < Len(new) \/ done = 0
           /\ savedRows' = upsertSavedItems(savedRows, upserted)
           /\ rawCache' = rawCache \cup upserted
           /\ lastOp' = SyncOp("index_new", Cardinality(upserted),
                               IF ok THEN "ok" ELSE "RemoteFetchFailed")
    /\ UNCHANGED <<remote, recycledIds, checkpoint, okBackfills, deletedIds>>
    /\ UNCHANGED otherThanSync

\* backfill_batch(batch_size): up to batch_size messages older than the
\* checkpoint, in descending order; the checkpoint advances when the batch
\* is through, a failure keeps the rows upserted before it
backfill_batch(batch_size, ok, done) ==
    /\ ~checkpoint.is_complete
    /\ LET before == IF checkpoint.oldest_indexed_message_id = 0
                     THEN RemoteHistory + MaxNew + 1
                     ELSE checkpoint.oldest_indexed_message_id
           fetched == fetch_before(before, batch_size)
           n == Len(fetched.messages)
           upserted == IF ok THEN Range(fetched.messages)
                       ELSE Range(SubSeq(fetched.messages, 1, done))
       IN  /\ ~ok => done < n \/ done = 0
           /\ savedRows' = upsertSavedItems(savedRows, upserted)
           /\ rawCache' = rawCache \cup upserted
           /\ checkpoint' =
                 IF ok
                 THEN [oldest_indexed_message_id |->
                          IF n = 0
                          THEN checkpoint.oldest_indexed_message_id
                          ELSE fetched.messages[n],
                       is_complete |-> ~fetched.has_more]
                 ELSE checkpoint
           /\ okBackfills' = IF ok THEN okBackfills + 1 ELSE okBackfills
           /\ lastOp' = SyncOp("backfill_batch", Cardinality(upserted),
                               IF ok THEN "ok" ELSE "RemoteFetchFailed")
    /\ UNCHANGED <<remote, recycledIds, deletedIds>>
    /\ UNCHANGED otherThanSync

\* rebuild_index(): every cached raw message is upserted again
rebuild_index ==
    /\ savedRows' = upsertSavedItems(savedRows, rawCache)
    /\ lastOp' = SyncOp("rebuild_index", Cardinality(rawCache), "ok")
    /\ UNCHANGED <<remote, rawCache, recycledIds, checkpoint, okBackfills,
                   deletedIds>>
    /\ UNCHANGED otherThanSync

\* The messages the recycle flow is followed for: the newest and the
\* oldest of the history and the oldest of the first batch
Followed == {1, RemoteHistory - BatchSize + 1, RemoteHistory}

\* move_to_recycle_bin(X) as far as the row's existence goes
recycleMessage(id) ==
    /\ id \in Followed
    /\ IF savedRows[id] > 0
       THEN /\ recycledIds' = recycledIds \cup {id}
            /\ lastOp' = SyncOp("move_to_recycle_bin", id, "ok")
       ELSE /\ UNCHANGED recycledIds
            /\ lastOp' = SyncOp("move_to_recycle_bin", id, "NotFound")
    /\ UNCHANGED <<remote, rawCache, savedRows, checkpoint, okBackfills,
                   deletedIds>>
    /\ UNCHANGED otherThanSync

\* restore(X) and move(X, folder) as far as the row's existence goes
restoreMessage(id) ==
    /\ id \in Followed
    /\ IF savedRows[id] > 0
       THEN /\ recycledIds' = recycledIds \ {id}
            /\ lastOp' = SyncOp("restore", id, "ok")
       ELSE /\ UNCHANGED recycledIds
            /\ lastOp' = SyncOp("restore", id, "NotFound")
    /\ UNCHANGED <<remote, rawCache, savedRows, checkpoint, okBackfills,
                   deletedIds>>
    /\ UNCHANGED otherThanSync

\* delete_permanently(X): send_delete, and delete_saved_item once the
\* remote deletion is confirmed
deleteMessage(id, remoteOk) ==
    /\ remote' = IF remoteOk THEN SelectSeq(remote, LAMBDA x : x # id)
                 ELSE remote
    /\ savedRows' = IF remoteOk THEN [savedRows EXCEPT ![id] = 0] ELSE savedRows
    /\ rawCache' = rawCache

deletePermanently(id, remoteOk) ==
    /\ id \in Followed
    /\ id \in recycledIds
    /\ savedRows[id] > 0
    /\ Cardinality(deletedIds) < MaxDeletes
    /\ deleteMessage(id, remoteOk)
    /\ recycledIds' = IF remoteOk THEN recycledIds \ {id} ELSE recycledIds
    /\ deletedIds' = IF remoteOk THEN deletedIds \cup {id} ELSE deletedIds
    /\ lastOp' = SyncOp("delete_permanently", id,
                        IF remoteOk THEN "ok" ELSE "RemoteDeleteFailed")
    /\ UNCHANGED <<checkpoint, okBackfills>>
    /\ UNCHANGED otherThanSync

NextSync ==
    \/ arrive
    \/ index_new(TRUE, 0)
    \/ \E done \in 0..MaxPartial : index_new(FALSE, done)
    \/ backfill_batch(BatchSize, TRUE, 0)
    \/ \E done \in 0..MaxPartial : backfill_batch(BatchSize, FALSE, done)
    \/ rebuild_index
    \/ \E id \in Followed : recycleMessage(id)
    \/ \E id \in Followed : restoreMessage(id)
    \/ \E id \in Followed, ok \in BOOLEAN : deletePermanently(id, ok)

SpecSync == Init /\ [][NextSync]_vars

(***************************************************************************)
(* The path resolver, ExplorerPage.tsx:242-262 and 1114-1145: pure         *)
(* functions of a path.  They are applied to the path the page is at, and  *)
(* each to the other's answer.                                             *)
(***************************************************************************)
otherThanResolved == <<pageVars, listVars, thumbVars, syncVars, navVars, pagesVars,
                      currentPath>>

\* The segments a path is made of below its root
NameSegments == {"a", "x", RecycleBinName}
Segments == NameSegments \cup {"", BackslashName}

RECURSIVE SeqsUpTo(_, _)
\* the sequences over S of length n or less
SeqsUpTo(S, n) ==
    IF n = 0 THEN {<<>>}
    ELSE LET shorter == SeqsUpTo(S, n - 1)
         IN  shorter \cup {Append(t, x) : t \in shorter, x \in S}

SavedXRoot == <<"tg:", "", "savedX">>

\* The path strings the resolver is given
PathInputs ==
    {root \o tail : root \in {SavedRoot, HomePath, RealDir, SavedXRoot},
                    tail \in SeqsUpTo(Segments, MaxDepth)}

\* .split("/").filter(Boolean)
partsOf(path) == SelectSeq(path, LAMBDA part : part # "")

\* parts.forEach: runningPath grows by one part with every crumb
crumbs(base, parts) ==
    [i \in 1..Len(parts) |->
        [name |-> parts[i], path |-> base \o SubSeq(parts, 1, i)]]

\* the same with every crumb's path built from the root alone
breadcrumbFromRoot(path) ==
    IF path = <<>> \/ path = <<"">> THEN <<>>
    ELSE IF startsWithTgSaved(path)
         THEN LET parts == partsOf(withoutTgSaved(path))
              IN  [i \in 1..Len(parts) |->
                      [name |-> parts[i], path |-> Append(SavedRoot, parts[i])]]
         ELSE crumbs(<<"">>, partsOf(path))

\* the body of useMemo breadcrumbItems
breadcrumb(path) ==
    IF path = <<>> \/ path = <<"">> THEN <<>>
    ELSE IF startsWithTgSaved(path)
         THEN crumbs(SavedRoot, partsOf(withoutTgSaved(path)))
         ELSE crumbs(<<"">>, partsOf(path))

\* a render of the page
renderBreadcrumb ==
    /\ breadcrumbItems' = breadcrumb(currentPath)
    /\ lastOp' = Op("breadcrumbItems", currentPath, EmptyPath, "ok")
    /\ UNCHANGED otherThanResolved

toSaved(path, res) ==
    /\ lastOp' = Op("virtualToSavedPath", path, virtualToSavedPath(path), res)
    /\ UNCHANGED <<otherThanResolved, resolveVars>>

toVirtual(path, res) ==
    /\ lastOp' = Op("savedToVirtualPath", path, savedToVirtualPath(path), res)
    /\ UNCHANGED <<otherThanResolved, resolveVars>>

\* to_saved of what to_virtual has just answered
toSavedBack ==
    /\ lastOp.op = "savedToVirtualPath"
    /\ lastOp.res = "first"
    /\ toSaved(lastOp.dst, "back")

\* to_virtual of what to_saved has just answered
toVirtualBack ==
    /\ lastOp.op = "virtualToSavedPath"
    /\ lastOp.res = "first"
    /\ toVirtual(lastOp.dst, "back")

InitResolve ==
    /\ \E path \in PathInputs : InitAt(path)
    /\ files = {}
    /\ isLoading = FALSE
    /\ isSavedBackfillSyncing = FALSE
    /\ requests = <<>>
    /\ lastLoad = Load(currentPath, "shown")

NextResolve ==
    \/ renderBreadcrumb
    \/ toSaved(currentPath, "first")
    \/ toVirtual(currentPath, "first")
    \/ toSavedBack
    \/ toVirtualBack

SpecResolve == InitResolve /\ [][NextResolve]_vars

Next ==
    \/ \E p \in NavTargets : Navigate(p)
    \/ \E f \in filteredFiles : handleFileSelect(f)
    \/ handleKeyDownDelete
    \/ \E f \in filteredFiles : handleContextDelete(f)
    \/ cancelDelete
    \/ handleDelete
    \/ \E f \in filteredFiles : handleRestoreFromRecycleBin(f)
    \/ \E m \in {"cut", "copy"}, f \in filteredFiles : handleStageClipboardItem(m, f)
    \/ \E t \in PasteTargets : handlePaste(t)
    \/ \E f \in filteredFiles : handleItemDragStart(f)
    \/ handleItemDragEnd
    \/ \E t \in filteredFiles : handleItemDrop(t)
    \/ \E n \in Names : handleConfirmNewFolder(n)
    \/ \E f \in filteredFiles, n \in Names : handleConfirmRename(f, n)
    \/ \E n \in Names : handleUploadFiles(n)
    \/ \E n \in Names : tg_index_saved_messages(n)
    \/ \E k \in 1..MaxInFlight, ok \in BOOLEAN : Complete(k, ok)
    \/ NextList
    \/ NextThumb
    \/ NextSync
    \/ NextResolve

Spec == Init /\ [][Next]_vars

(***************************************************************************)
(* The page's features one at a time: the delete and restore flow, and     *)
(* the clipboard and drag-and-drop flow.  Each is Next without the         *)
(* handlers of the others.                                                 *)
(***************************************************************************)
NextDelete ==
    \/ \E p \in NavTargets : Navigate(p)
    \/ \E f \in filteredFiles : handleFileSelect(f)
    \/ handleKeyDownDelete
    \/ \E f \in filteredFiles : handleContextDelete(f)
    \/ cancelDelete
    \/ handleDelete
    \/ \E f \in filteredFiles : handleRestoreFromRecycleBin(f)
    \/ \E k \in 1..MaxInFlight, ok \in BOOLEAN : Complete(k, ok)

SpecDelete == Init /\ [][NextDelete]_vars

NextMove ==
    \/ \E p \in NavTargets : Navigate(p)
    \/ \E m \in {"cut", "copy"}, f \in filteredFiles : handleStageClipboardItem(m, f)
    \/ \E t \in PasteTargets : handlePaste(t)
    \/ \E f \in filteredFiles : handleItemDragStart(f)
    \/ handleItemDragEnd
    \/ \E t \in filteredFiles : handleItemDrop(t)
    \/ \E k \in 1..MaxInFlight, ok \in BOOLEAN : Complete(k, ok)

SpecMove == Init /\ [][NextMove]_vars

NextRecycle ==
    \/ \E p \in NavTargets : Navigate(p)
    \/ \E f \in filteredFiles : handleContextDelete(f)
    \/ handleDelete
    \/ \E f \in filteredFiles : handleRestoreFromRecycleBin(f)
    \/ \E m \in {"cut", "copy"}, f \in filteredFiles : handleStageClipboardItem(m, f)
    \/ \E t \in PasteTargets : handlePaste(t)
    \/ \E k \in 1..MaxInFlight, ok \in BOOLEAN : Complete(k, ok)

SpecRecycle == Init /\ [][NextRecycle]_vars
\* Indexing, uploads, folders and renames next to the recycle flow
NextIndex ==
    \/ \E p \in NavTargets : Navigate(p)
    \/ \E n \in Names : tg_index_saved_messages(n)
    \/ \E n \in Names : handleUploadFiles(n)
    \/ \E n \in Names : handleConfirmNewFolder(n)
    \/ \E f \in filteredFiles, n \in Names : handleConfirmRename(f, n)
    \/ \E f \in filteredFiles : handleContextDelete(f)
    \/ handleDelete
    \/ \E f \in filteredFiles : handleRestoreFromRecycleBin(f)
    \/ \E k \in 1..MaxInFlight, ok \in BOOLEAN : Complete(k, ok)

SpecIndex == Init /\ [][NextIndex]_vars

(***************************************************************************)
(* Properties of the move, delete and recycle flows.                       *)
(***************************************************************************)
PermanentDelete == "tg_delete_saved_item_permanently"

\* dest is not a folder, is the current parent of row i, or lies below row i
DestinationInvalid(its, i, dest) ==
    \/ ~IsFolderPath(its, dest)
    \/ dest = its[i].file_path
    \/ /\ its[i].file_type = "folder"
       /\ IsPrefix(FolderPathOf(its[i]), dest)
       /\ dest # FolderPathOf(its[i])

\* C3: a move, asked for by paste or by drop, whose destination is not a
\* folder, is the source's current parent or is a descendant of the source
\* answers InvalidTarget and leaves every row of the index as it was.
MoveRejectsInvalidTarget ==
    [][(/\ lastOp'.op = "tg_move_saved_item"
        /\ lastOp'.row # 0
        /\ DestinationInvalid(items, lastOp'.row, virtualToSavedPath(lastOp'.dst)))
       => (lastOp'.res = "InvalidTarget" /\ items' = items)]_vars

\* a pasted move of a folder into its own descendant has been refused
MoveIntoDescendantRefused ==
    /\ lastOp.op = "tg_move_saved_item"
    /\ lastOp.res = "InvalidTarget"
    /\ StartsWithSlash(lastOp.dst, lastOp.src)

SameDomain(c) ==
    /\ c.cmd = "tg_move_saved_item" =>
          isSavedVirtualItemPath(c.src) /\ isSavedVirtualFolderPath(c.dst)
    /\ c.cmd \in {"move_file", "copy_file"} =>
          ~isVirtualPath(c.src) /\ ~isVirtualPath(c.dst)

Straddles(src, dst) == isVirtualPath(src) # isVirtualPath(dst)

\* C4: tg_move_saved_item is invoked only with a saved item and a saved
\* folder, move_file and copy_file only with two real paths; a paste or drop
\* whose ends lie in different domains invokes nothing and changes nothing.
NoCrossDomainMove ==
    [][/\ \A k \in 1..Len(calls') : SameDomain(calls'[k])
       /\ (/\ lastOp'.op \in {"handlePaste", "handleItemDrop"}
           /\ Straddles(lastOp'.src, lastOp'.dst))
          => (items' = items /\ calls' = calls /\ files' = files)]_vars

\* a paste across the boundary has been turned down
CrossDomainPasteRefused ==
    /\ lastOp.op = "handlePaste"
    /\ Straddles(lastOp.src, lastOp.dst)
    /\ lastOp.res = "Cannot move items between local files and Saved Messages"

\* C5: a permanent delete that does not answer ok leaves the rows, the
\* listing on screen and the path as they were, a recycled item's failure is
\* RemoteDeleteFailed, and rows disappear only by a permanent delete that
\* answered ok.
FailedDeleteKeepsRows ==
    [][/\ (lastOp'.op = PermanentDelete /\ lastOp'.res # "ok")
          => (/\ items' = items
              /\ files' = files
              /\ currentPath' = currentPath
              /\ (lastOp'.row # 0 /\ InRecycleBin(items[lastOp'.row]))
                    => lastOp'.res = "RemoteDeleteFailed")
       /\ (\E i \in ItemIds : items[i].present /\ ~items'[i].present)
          => (lastOp'.op = PermanentDelete /\ lastOp'.res = "ok")]_vars

\* a permanent delete has failed remotely while the Recycle Bin is on screen
RemoteDeleteHasFailed ==
    /\ lastOp.op = PermanentDelete
    /\ lastOp.res = "RemoteDeleteFailed"
    /\ isRecycleBinPath(currentPath)
    /\ \E f \in files : f.path = lastOp.src

\* C6: tg_delete_saved_item_permanently is invoked only with an item that
\* is in the Recycle Bin at the time of the call.
PermanentDeleteOnlyOfRecycled ==
    [][(/\ Len(calls') > Len(calls)
        /\ calls'[Len(calls')].cmd = PermanentDelete)
       => \E i \in Resolve(items, calls'[Len(calls')].src) :
              InRecycleBin(items[i])]_vars

\* C7: no two rows with the same parent path have the same file_name.
UniqueNames ==
    \A i, j \in ItemIds :
        (/\ i # j
         /\ items[i].present
         /\ items[j].present
         /\ items[i].file_path = items[j].file_path)
        => items[i].file_name # items[j].file_name

\* C8: a row has recycle_origin_path set only while it is under the
\* Recycle Bin root, and every row directly in the Recycle Bin has it set.
OriginIffRecycled ==
    \A i \in ItemIds :
        items[i].present =>
            /\ items[i].recycle_origin_path # NoPath => InRecycleBin(items[i])
            /\ items[i].file_path = RecycleBinSavedPath
                  => items[i].recycle_origin_path # NoPath

\* C9: for every active row X at path P of a reachable index,
\* move_to_recycle_bin(X) followed at once by restore(X) succeeds and
\* leaves X at P under its name.
RecycleThenRestore ==
    \A i \in ItemIds :
        (items[i].present /\ ~InRecycleBin(items[i])) =>
            LET recycled == move_to_recycle_bin(items, i)
                restored == restore(recycled.items, i)
            IN  /\ recycled.result = "ok"
                /\ InRecycleBin(recycled.items[i])
                /\ restored.result = "ok"
                /\ restored.items[i].file_path = items[i].file_path
                /\ restored.items[i].file_name = items[i].file_name

\* an item has been recycled and restored, and the index is as at the start
RestoredToOrigin ==
    /\ lastOp.op = "tg_restore_saved_item"
    /\ lastOp.res = "ok"
    /\ items = InitItems

MutatingCommands ==
    {"tg_move_saved_item", "tg_rename_saved_item",
     "tg_move_saved_item_to_recycle_bin", "tg_restore_saved_item",
     PermanentDelete}

\* C10: no two mutating calls on the same item, or on an item and a folder
\* containing it, are in flight together.
NoInterleavedMutation ==
    \A j, k \in 1..Len(calls) :
        (/\ j < k
         /\ calls[j].cmd \in MutatingCommands
         /\ calls[k].cmd \in MutatingCommands)
        => /\ calls[j].src # calls[k].src
           /\ ~StartsWithSlash(calls[j].src, calls[k].src)
           /\ ~StartsWithSlash(calls[k].src, calls[j].src)
(***************************************************************************)
(* Properties of paging and the path cache.                                *)
(***************************************************************************)
\* C1: a listing served from the cache holds no rows of its path that were
\* read before the last change to the rows under that path.
CacheNeverStale ==
    [][lastOp'.op = "applySavedPathCache" =>
          \A n \in 1..Len(filesRef') :
              filesRef'[n].path = lastOp'.src =>
                  filesRef'[n].ver = pathVer'[lastOp'.src]]_vars

\* C2: what the cache holds for a path is rows of that path only, from row
\* 0 on, each range starting where the one before it ends.
CacheHoldsOwnPagesOnce ==
    \A p \in ListPaths :
        LET list == savedPathCache[p].items
        IN  \A n \in 1..Len(list) :
                /\ list[n].path = p
                /\ list[n].lo = IF n = 1 THEN 0 ELSE list[n - 1].hi
\* C11: while the cache holds a complete snapshot of a path, the entry of
\* that path stays complete until it is dropped, and a visit to the path
\* that is not forced is served from the entry and issues no list request.
CompleteSnapshotStays ==
    [][\A p \in ListPaths :
          savedPathCache[p].isCompleteSnapshot =>
             /\ savedPathCache'[p] # NoEntry
                   => savedPathCache'[p].isCompleteSnapshot
             /\ (lastOp'.op = "loadDirectory" /\ lastOp'.src = p)
                   => lastOp'.res = "force"
             /\ (lastOp'.op = "applySavedPathCache" /\ lastOp'.src = p)
                   => requests' = requests]_vars

\* C20: once the latest loadDirectory call has put its listing on screen,
\* the path and the rows on screen are those of its path, whatever answers
\* arrive afterwards; and while it awaits its answer the page shows that it
\* is loading.
LatestRequestWins ==
    /\ lastLoad.state = "shown" =>
          /\ currentPath = lastLoad.path
          /\ \A n \in 1..Len(filesRef) : filesRef[n].path = lastLoad.path
    /\ lastLoad.state = "pending" => isLoading

RECURSIVE Flatten(_)
\* The rows a listing holds, one by one, in the order they are shown
Flatten(list) ==
    IF list = <<>> THEN <<>>
    ELSE [j \in 1..(list[1].hi - list[1].lo) |->
             [path |-> list[1].path, ver |-> list[1].ver,
              row |-> list[1].lo + j - 1]] \o Flatten(Tail(list))

\* The first n rows of list_items(path) as the index held them at ver
FullListingPrefix(path, ver, n) ==
    SubSeq(Flatten(tg_list_all_saved_items(path, ver)), 1, n)

\* C12: a page asked for at offset 0, or at the offset where the listing on
\* screen ends when that listing is the first rows of the full listing of
\* the same path read at the same state of the index, leaves on screen
\* exactly the first rows of the full listing up to the end of the page, no
\* row skipped or repeated, with next_offset and has_more to match.
PagesSliceFullListing ==
    [][(lastOp'.op = "tg_list_saved_items_page" /\ lastOp'.res = "ok") =>
          LET r == requests[lastOp'.row]
              end == Min(r.offset + SAVED_ITEMS_PAGE_SIZE, RowCount(r.path))
          IN  (IF r.append
               THEN Flatten(filesRef) = FullListingPrefix(r.path, r.snap, r.offset)
               ELSE r.offset = 0)
              => /\ Flatten(filesRef') = FullListingPrefix(r.path, r.snap, end)
                 /\ savedItemsOffset' = end
                 /\ hasMoreSavedItems' = (end < RowCount(r.path))]_vars

\* two pages of tg://saved, the second appended to the first, are on screen
SecondPageAppended ==
    /\ lastOp.op = "tg_list_saved_items_page"
    /\ lastOp.res = "ok"
    /\ Len(filesRef) = 2
    /\ Flatten(filesRef) =
          FullListingPrefix(SavedRoot, pathVer[SavedRoot],
                            2 * SAVED_ITEMS_PAGE_SIZE)
(***************************************************************************)
(* Properties of the thumbnails.                                           *)
(***************************************************************************)
\* C13: no message has two thumbnail calls in flight at the same time.
OneFetchPerMessage ==
    \A id \in ThumbIds :
        Cardinality({k \in 1..Len(thumbFetches) : id \in thumbFetches[k].ids}) <= 1

\* C14: a message is re-fetched at most once, and only by the onError of
\* its image; once its re-fetch has failed its row shows no thumbnail and
\* no further thumbnail call is made for it.
RetryOncePerSession ==
    [][\A id \in ThumbIds :
          /\ retries'[id] <= 1
          /\ retries'[id] > retries[id] =>
                (lastOp'.op = "refetchThumbnail" /\ rows[id].img = "pending")
          /\ retryFailed'[id] =>
                (rows'[id].mounted => rows'[id].thumbUrl = "none")
          /\ retryFailed[id] =>
                \A k \in 1..Len(thumbFetches') :
                    id \in thumbFetches'[k].ids =>
                        \E j \in 1..Len(thumbFetches) :
                            thumbFetches[j] = thumbFetches'[k]]_vars
(***************************************************************************)
(* Properties of the indexer.                                              *)
(***************************************************************************)
\* C15: however often a message is indexed (by index_new, by a batch, by a
\* batch tried again after a failure, by a rebuild) it has at most one row,
\* every message that was fetched and upserted has one unless it was
\* deleted, and a call that fails removes no row.
UpsertKeepsOneRow ==
    [][/\ \A id \in MsgRange : savedRows'[id] <= 1
       /\ \A id \in rawCache' \ deletedIds' : savedRows'[id] = 1
       /\ lastOp'.res = "RemoteFetchFailed" =>
             \A id \in MsgRange : savedRows'[id] >= savedRows[id]]_vars

\* the whole first batch, upserted before, has been upserted once more by
\* a rebuild
IndexedAgain ==
    /\ lastOp.op = "rebuild_index"
    /\ lastOp.row >= BatchSize
    /\ \A id \in rawCache : savedRows[id] = 1

\* C16: over the history of 137 messages the third backfill_batch(50) that
\* answers ok, and no earlier one, reports no more history: then
\* is_complete holds and oldest_indexed_message_id is the lowest remote
\* id; every batch that answers ok upserts at most 50 messages, all older
\* than the checkpoint, and moves the checkpoint down.
BackfillCompletesInThree ==
    [][/\ checkpoint'.is_complete <=> okBackfills' = 3
       /\ okBackfills' <= 3
       /\ (lastOp'.op = "backfill_batch" /\ lastOp'.res = "ok") =>
             /\ okBackfills' = okBackfills + 1
             /\ lastOp'.row <= BatchSize
             /\ \A id \in MsgRange :
                   savedRows'[id] > savedRows[id] =>
                      \/ checkpoint.oldest_indexed_message_id = 0
                      \/ id < checkpoint.oldest_indexed_message_id
             /\ \/ checkpoint.oldest_indexed_message_id = 0
                \/ checkpoint'.oldest_indexed_message_id
                      < checkpoint.oldest_indexed_message_id
             /\ checkpoint'.is_complete =>
                   /\ checkpoint'.oldest_indexed_message_id
                         = remote'[Len(remote')]
                   /\ \A j \in 1..Len(remote') :
                         remote'[j] <= RemoteHistory => savedRows'[remote'[j]] = 1]_vars

\* the third batch has answered and the backfill is complete
BackfillComplete ==
    /\ lastOp.op = "backfill_batch"
    /\ lastOp.res = "ok"
    /\ lastOp.row = RemoteHistory - 2 * BatchSize
    /\ checkpoint.is_complete
    /\ checkpoint.oldest_indexed_message_id = 1

\* C17: a message that was deleted permanently has no row, whatever is
\* called afterwards.
DeletedStaysDeleted ==
    \A id \in deletedIds : savedRows[id] = 0

\* A path in normal form at or under the root: every segment below the root
\* is a name, none is empty and none holds a backslash
WellFormedUnder(root, path) ==
    /\ IsPrefix(root, path)
    /\ \A i \in (Len(root) + 1)..Len(path) : path[i] \in NameSegments

VirtualPathOfSegments(path) ==
    /\ IsPrefix(SavedRoot, path)
    /\ \A i \in (Len(SavedRoot) + 1)..Len(path) : path[i] # ""

\* C19: for the virtual path tg://saved/s1/.../sn the breadcrumb has n
\* segments, the i-th with name si and path tg://saved/s1/.../si: the last
\* one's path is the path itself, and the virtual root has no segments.
BreadcrumbSegments ==
    (lastOp.op = "breadcrumbItems" /\ VirtualPathOfSegments(currentPath)) =>
        LET n == Len(currentPath) - Len(SavedRoot)
        IN  /\ Len(breadcrumbItems) = n
            /\ \A i \in 1..n :
                  /\ breadcrumbItems[i].name = currentPath[Len(SavedRoot) + i]
                  /\ breadcrumbItems[i].path
                        = SubSeq(currentPath, 1, Len(SavedRoot) + i)
            /\ n > 0 => breadcrumbItems[n].path = currentPath
            /\ currentPath = SavedRoot => breadcrumbItems = <<>>

\* the breadcrumb of a folder two levels down in the Recycle Bin is shown
BreadcrumbShown ==
    /\ lastOp.op = "breadcrumbItems"
    /\ currentPath = RECYCLE_BIN_VIRTUAL_PATH \o <<"a", "x">>
    /\ Len(breadcrumbItems) = 3
    /\ breadcrumbItems[3].name = "x"


\* C21: handlePaste invokes a move (tg_move_saved_item or move_file) only
\* when the item on the clipboard was staged with Cut.
CopyPasteNeverMoves ==
    [][(/\ lastOp'.op = "handlePaste"
        /\ lastOp'.res \in {"tg_move_saved_item", "move_file"}) =>
            clipboardItem.mode = "cut"]_vars


\* C23: the sync is marked complete only by an index run that has answered:
\* when tg_index_saved_messages fails, isSavedSyncComplete does not become
\* true and paged loading stays as it was.
SyncCompleteOnlyOnSuccess ==
    [][(lastOp'.op = "runSavedMessageSync" /\ lastOp'.res = "null") =>
            /\ ~isSavedSyncComplete'
            /\ hasMoreSavedItems' = hasMoreSavedItems]_vars


\* C22: once the startup index run has completed and every list call has
\* succeeded, the page does not come to rest on a partial listing: when no
\* list request is in flight any more (nothing further happens unless the
\* user acts), the entry of the path on screen is a complete snapshot and
\* no more pages are due.
PartialListingResolved ==
    (/\ isSavedSyncComplete
     /\ requests = <<>>
     /\ startsWithTgSaved(currentPath)) =>
        /\ savedPathCache[currentPath] # NoEntry
        /\ savedPathCache[currentPath].isCompleteSnapshot
        /\ ~savedPathCache[currentPath].hasMore
        /\ ~hasMoreSavedItems


\* The commands that change where an item is or what it is called
ModifyingCommands == {"tg_move_saved_item", "tg_rename_saved_item"}

\* C24: an item in the Recycle Bin takes restore and permanent delete only:
\* no move and no rename is invoked for a source that is in the Recycle
\* Bin at the time, nothing is staged or dragged from the Recycle Bin, and
\* no paste, upload or new folder goes into it.
RecycledItemsReadOnly ==
    [][/\ Len(calls') = Len(calls) + 1 =>
             LET c == calls'[Len(calls')]
             IN  /\ c.cmd \in ModifyingCommands =>
                        \A i \in Resolve(items, c.src) : ~InRecycleBin(items[i])
                 /\ c.cmd \in {"tg_move_saved_item", "tg_create_saved_folder",
                               "tg_upload_file_to_saved_messages"} =>
                        ~IsPrefix(RecycleBinSavedPath, virtualToSavedPath(c.dst))
       /\ clipboardItem' # clipboardItem /\ clipboardItem' # NoClip =>
             ~isRecycleBinPath(currentPath)
       /\ draggedPath' # draggedPath /\ draggedPath' # EmptyPath =>
             ~isRecycleBinPath(currentPath)]_vars

\* C25: a back or forward step never loses or duplicates a visited path:
\* once every load has ended, the back stack, the current path and the
\* forward stack hold the visited paths in the order they had when the
\* steps began, also when a step was taken before the previous load ended.
HistoryNeverLosesAPath ==
    (timeline # NoTimeline /\ requests = <<>>) => History = timeline

\* C26: when the load of a navigation fails, the current path, the listing
\* and the two history stacks are those from before the navigation.
FailedLoadKeepsHistory ==
    (/\ attempt.settled
     /\ lastLoad.state = "failed"
     /\ requests = <<>>) =>
        /\ currentPath = attempt.path
        /\ filesRef = attempt.files
        /\ backHistory = attempt.back
        /\ forwardHistory = attempt.forward

\* C27: at most one QR polling loop is live: every tg_poll_qr_login call
\* is issued by, and every poll answer that is acted on belongs to, the
\* loop that startQrPolling started last.
OnePollingLoop ==
    [][qrEvent'.kind \in {"tg_poll_qr_login", "handled"} =>
           qrEvent'.loop = nLoops']_vars

\* C28: tg_poll_qr_login and tg_generate_qr_code are issued only while the
\* page shows the QR card (loginMode = "qr" and step = "phone").
QrCallsOnlyOnQrScreen ==
    [][qrEvent'.kind \in {"tg_poll_qr_login", "tg_generate_qr_code"} =>
           OnQrScreen(loginMode', step')]_vars

\* The QR flow goes on by itself: a poll loop is live, or a QR code is
\* being generated or will be when its timer fires
QrFlowAlive ==
    \/ pollingRef /\ \E l \in 1..MaxGens : loops[l] \in {"timer", "call"}
    \/ gens > 0
    \/ regenTimers > 0

\* C29: while the page shows the QR card, a poll answer that ends polling
\* without a login (Expired, migration, Success without user info, an
\* error) leaves the flow alive: polling will resume or a new QR code will
\* be generated.
QrFlowNeverStalls ==
    [][(/\ qrEvent'.kind = "handled"
        /\ qrEvent'.result \in {"Expired", "Migration", "SuccessNoUser",
                                "Error", "throws"}
        /\ OnQrScreen(loginMode', step')) => QrFlowAlive']_vars

\* C30: the session check ends with exactly one routing decision: the
\* loading page navigates at most once and eventually once, to /explorer
\* only when tg_restore_session answered authorized with user info and to
\* /login otherwise, and tg_restore_session is called only while online.
StartupRoutesOnce ==
    /\ [](Len(navigated) <= 1)
    /\ [](route = "/explorer" => restoreResult = "authorized")
    /\ [](route = "/login" => navigated = <<"/login">>)
    /\ [][(phase' = "tg_restore_session" /\ phase # "tg_restore_session") =>
              online]_vars
    /\ <>(Len(navigated) = 1)

RestoredToExplorer ==
    /\ navigated = <<"/explorer">>
    /\ route = "/explorer"
    /\ restoreResult = "authorized"

=============================================================================
